---- MODULE Spec2Model ----
(***************************************************************************)
(* Paginated flow layout of the TJC report and receipt generators          *)
(* (tjsims/src/utils/pdfGenerator.js): generateSalesReportPDF,             *)
(* generateInventoryReportPDF, generateReturnsReportPDF and                *)
(* generateSaleReceipt.                                                    *)
(*                                                                         *)
(* One generation call is one behaviour.  The drawing surface (jsPDF) is   *)
(* the sequence cmds of draw commands, each stamped with the page it was   *)
(* issued on, the cursor y it was placed at and the font state in force.   *)
(* Report coordinates are millimetres; receipt coordinates are tenths of   *)
(* a point (SMALL_LINE_HEIGHT = 9.6pt = 96).  Money is integer centavos.   *)
(***************************************************************************)
EXTENDS Integers, Sequences, FiniteSets, TLC

\* ------------------------------------------------------------------ bounds
MaxRows == 80        \* longest uniform row sequence fed to a generator
MaxSmall == 3        \* longest row sequence with freely mixed rows
MaxAddressLines == 3 \* wrapped address lines of the receipt
MaxLen == 40         \* longest text value rendered on its own
MaxSales == 5        \* most rows of the sales table
MaxItems == 2        \* most line items of a sale with freely mixed items
MaxPairRows == 40    \* longest row sequence fed to two overlapping calls
MaxInFlight == 2     \* most getDailySales calls in flight at once

\* --------------------------------------------------------- program values
NULL == "null"
UNDEF == "undefined"

\* a raw field value as JavaScript sees it: a number, a non-numeric string, or undefined
N(n) == [k |-> "num", v |-> n]
NaNText == [k |-> "str", v |-> 0]     \* such as "abc": Number("abc") is NaN
Undefined == [k |-> "undefined", v |-> 0]
NaN == [k |-> "nan", v |-> 0]

Gens == {"sales", "inventory", "returns", "receipt"}
Reports == {"sales", "inventory", "returns"}

\* a text value: its identity and its length in characters
T(s, n) == [s |-> s, n |-> n, ell |-> FALSE]
NA == T("N/A", 3)
NoText == T(UNDEF, 0)                 \* the field is undefined
Falsy(t) == t.s = UNDEF \/ t.n = 0    \* undefined or ''

\* Number(v): NaN for undefined and for non-numeric strings
Number(v) == IF v.k = "num" THEN v ELSE NaN

\* Number(v) || 0, as an integer
Number0(v) == IF v.k = "num" THEN v.v ELSE 0

\* v || 0
OrZero(v) == IF v.k = "num" /\ v.v # 0 THEN v ELSE IF v.k = "str" THEN v ELSE N(0)

\* a * b on numbers
Times(a, b) == IF a.k = "num" /\ b.k = "num" THEN N(a.v * b.v) ELSE NaN

\* peso with the centavos dropped (maximumFractionDigits: 0)
peso_whole(n) == <<"PHP", (Number0(n) \div 100) * 100>>

\* formatCurrency: 'PHP ' followed by the amount to two decimals
formatCurrency(amount) == <<"PHP", Number0(amount)>>

\* peso: the receipt's formatter
peso(n) == <<"PHP", Number0(n)>>

\* --------------------------------------------------------------- geometry
RowThreshold == 270         \* reports: if (yPosition > 270)
GrandTotalThreshold == 265  \* sales: if (yPosition > 265)
SummaryLimit_typo == 280 \div 10      \* the summary check against 28: a dropped digit
SummaryLimit == 280         \* if (yPosition + 35 > 280)
footerY == 285
RowHeight == 6
ReceiptThreshold == 7500    \* receipt: if (y > 750)
margin == 400
LINE_HEIGHT == 120
SMALL_LINE_HEIGHT == 96
minRowHeight == 250

TopMargin == 20             \* yPosition = 20 after a row or grand-total page break
SummaryTop == 30            \* yPosition = 30 after the summary page break

\* the summary check without its height estimate
SummaryHeight_none(g) == 0

\* estimated summary height used by the summary page-break check
SummaryHeight(g) == IF g = "inventory" THEN 30 ELSE 35

Max(a, b) == IF a >= b THEN a ELSE b

\* ------------------------------------------------------------------ state
VARIABLES
    gen,          \* which generator this call runs
    salesData,    \* sales: the orders passed in
    rows,         \* the sequence the row loop iterates (flattenedData, inventoryData, returnsData, items)
    args,         \* receipt: totalAmount, paymentMethod, tenderedAmount, changeAmount, addressLines
    logoDataUrl,  \* result of loadImageAsDataURL once settled
    pc,           \* position of the call
    y,            \* yPosition / y
    idx,          \* index of the next row of the forEach (1-based)
    pages,        \* doc.internal.getNumberOfPages()
    curPage,      \* page the surface currently draws on
    fontSize, fontStyle,
    cmds,         \* draw commands issued so far
    grandTotal,   \* grandTotal / totalRefundAmount
    fi,           \* footer loop variable i
    awaits,       \* how many awaits of the call have resumed
    running,      \* which of two overlapping calls the variables above belong to
    parked,       \* the other call: its variables, saved while it is suspended or finished
    fieldIn,      \* text rendering: the field, its value and the shipping option
    fieldOut,     \* text rendering: the text handed to doc.text, or the error raised
    periodIn,     \* formatPeriodText: startDate, endDate, rangeLabel
    periodOut,    \* formatPeriodText: the text returned
    loading,      \* DashboardSections: the main loader flag
    sections,     \* DashboardSections: lowStock, fastMoving, slowMoving, salesByCategory
    mount,        \* DashboardSections: the four requests of fetchAllData
    mpc,          \* DashboardSections: position of fetchAllData
    salesPeriod,  \* DashboardSections: the selected period
    salesChartData, \* DashboardSections: the chart's data
    loadingSales, \* DashboardSections: the chart's loader flag
    salesReqs,    \* DashboardSections: the getDailySales calls made, oldest first
    req,          \* getSalesReport: req.query
    db,           \* getSalesReport: the sales table, newest first, each sale with its sale_items
    sales,        \* getSalesReport: result of the sales query
    total,        \* getSalesReport: result of the count query
    salesWithItems, \* getSalesReport: the array being built
    hpc,          \* getSalesReport: position of the handler
    res           \* getSalesReport: the response sent

vars == <<gen, salesData, rows, args, logoDataUrl, pc, y, idx, pages, curPage,
          fontSize, fontStyle, cmds, grandTotal, fi, awaits, running, parked,
          fieldIn, fieldOut, periodIn, periodOut,
          loading, sections, mount, mpc, salesPeriod, salesChartData, loadingSales, salesReqs,
          req, db, sales, total, salesWithItems, hpc, res>>

\* the state outside the generation call that is running
aux == <<running, parked, fieldIn, fieldOut, periodIn, periodOut,
         loading, sections, mount, mpc, salesPeriod, salesChartData, loadingSales, salesReqs,
         req, db, sales, total, salesWithItems, hpc, res>>

\* a single call: there is no other one
NoCall == [pc |-> "none"]
Alone == running = 1 /\ parked = NoCall

\* no text field is being rendered on its own
NoField == [field |-> "none", value |-> [k |-> "undefined", s |-> <<>>], shippingOption |-> "none"]
NotRendered == [k |-> "none", s |-> <<>>]
FieldIdle == fieldIn = NoField /\ fieldOut = NotRendered

\* no period text is being formatted on its own
period == <<periodIn, periodOut>>
NoDate == [k |-> "none", y |-> 0, m |-> 0, d |-> 0]
NoPeriod == [startDate |-> NoDate, endDate |-> NoDate, rangeLabel |-> "none"]
PeriodIdle == periodIn = NoPeriod /\ periodOut = <<>>

\* no dashboard is mounted
dashboard == <<loading, sections, mount, mpc, salesPeriod, salesChartData, loadingSales, salesReqs>>
DashboardIdle ==
    /\ loading = FALSE
    /\ sections = <<>>
    /\ mount = <<>>
    /\ mpc = "unmounted"
    /\ salesPeriod = "none"
    /\ salesChartData = <<>>
    /\ loadingSales = FALSE
    /\ salesReqs = <<>>

\* no request is being handled
NoResponse == [status |-> 0]
HandlerIdle ==
    /\ req = [page |-> 1, limit |-> 10]
    /\ db = <<>>
    /\ sales = <<>>
    /\ total = 0
    /\ salesWithItems = <<>>
    /\ hpc = "idle"
    /\ res = NoResponse

\* ----------------------------------------------------------------- inputs
SalesItems ==
    { [productName |-> T("Brake Pad", 9),  quantity |-> N(2), unitPrice |-> N(50000), totalPrice |-> N(100000)],
      [productName |-> T("Oil Filter", 10), quantity |-> N(2), unitPrice |-> N(25050), totalPrice |-> N(50100)],
      [productName |-> T("6205", 4),       quantity |-> N(2), unitPrice |-> N(19900), totalPrice |-> N(39800)],
      [productName |-> NA,                 quantity |-> N(3), unitPrice |-> N(1000), totalPrice |-> N(3000)],
      [productName |-> T("Spark Plug", 10), quantity |-> NaNText, unitPrice |-> Undefined, totalPrice |-> NaNText] }

Statuses == {"Completed", NULL, "N/A"}

InventoryItems ==
    { [productName |-> T("Brake Pad", 9), category |-> "Brakes", brand |-> "Bendix",
       currentStock |-> N(12), stockStatus |-> "In Stock"],
      [productName |-> T("Oil Filter", 10), category |-> "Filters", brand |-> "Bosch",
       currentStock |-> N(3), stockStatus |-> "Low Stock"],
      [productName |-> T("Spark Plug", 10), category |-> "Ignition", brand |-> "NGK",
       currentStock |-> N(0), stockStatus |-> "Out of Stock"],
      [productName |-> T("Fan Belt", 8), category |-> "Belts", brand |-> "Gates",
       currentStock |-> Undefined, stockStatus |-> "In Stock"],
      [productName |-> T("Air Filter", 10), category |-> "Filters", brand |-> "Bosch",
       currentStock |-> NaNText, stockStatus |-> "In Stock"] }

ReturnItems ==
    { [return_id |-> "RET-1", sale_number |-> "SL-1", customer_name |-> T("Juan Cruz", 9),
       return_reason |-> T("Defective/Damaged", 17), refund_amount |-> N(25050), restocked |-> FALSE],
      [return_id |-> "RET-2", sale_number |-> "SL-2", customer_name |-> NoText,
       return_reason |-> T("Wrong Item", 10), refund_amount |-> N(100000), restocked |-> TRUE],
      [return_id |-> "RET-3", sale_number |-> "SL-3", customer_name |-> T("Ana Reyes", 9),
       return_reason |-> NoText, refund_amount |-> NaNText, restocked |-> TRUE] }

\* nameLines / serialLines: what doc.splitTextToSize returns for the item
ReceiptItems ==
    { [name |-> T("Brake Pad", 9), nameLines |-> 1, serials |-> 0, serialLines |-> 0,
       quantity |-> N(2), price |-> N(50000)],
      [name |-> T("Oil Filter", 10), nameLines |-> 1, serials |-> 2, serialLines |-> 1,
       quantity |-> N(1), price |-> N(25050)],
      [name |-> T("Heavy Duty Battery", 18), nameLines |-> 3, serials |-> 6, serialLines |-> 2,
       quantity |-> N(3), price |-> N(19900)],
      [name |-> T("Alternator Assembly", 19), nameLines |-> 8, serials |-> 40, serialLines |-> 6,
       quantity |-> NaNText, price |-> Undefined] }

ItemsOf(g) ==
    CASE g = "sales" -> SalesItems
      [] g = "inventory" -> InventoryItems
      [] g = "returns" -> ReturnItems
      [] g = "receipt" -> ReceiptItems

SeqsUpTo(S, n) == UNION { [1..k -> S] : k \in 0..n }

\* row sequences: every short sequence, and every uniform sequence up to MaxRows
RowInputs(g) ==
    SeqsUpTo(ItemsOf(g), MaxSmall)
    \cup { [i \in 1..n |-> r] : n \in 0..MaxRows, r \in ItemsOf(g) }

\* orders: no order, one order carrying a uniform item list, or any short item
\* list split after its first k items (all of them when it has fewer) over two
\* orders of any status
SplitOrder(its, s1, s2, k) ==
    LET cut == IF k <= Len(its) THEN k ELSE Len(its)
    IN  << [status |-> s1, totalAmount |-> N(10000), items |-> SubSeq(its, 1, cut)],
           [status |-> s2, totalAmount |-> N(25050), items |-> SubSeq(its, cut + 1, Len(its))] >>

\* two Completed sales with totals 100.00 and 250.50, one item each
ExampleOrders ==
    << [status |-> "Completed", totalAmount |-> N(10000),
        items |-> << [productName |-> T("Wiper Blade", 11), quantity |-> N(1),
                      unitPrice |-> N(10000), totalPrice |-> N(10000)] >>],
       [status |-> "Completed", totalAmount |-> N(25050),
        items |-> << [productName |-> T("Oil Filter", 10), quantity |-> N(1),
                      unitPrice |-> N(25050), totalPrice |-> N(25050)] >>] >>

SalesInputs ==
    { <<>>, ExampleOrders }
    \cup { << [status |-> "Completed", totalAmount |-> N(10000), items |-> [i \in 1..n |-> r]] >> :
             n \in 0..MaxRows, r \in SalesItems }
    \cup { SplitOrder(its, s1, s2, k) :
             its \in SeqsUpTo(SalesItems, MaxSmall),
             s1 \in Statuses, s2 \in Statuses, k \in 0..MaxSmall }

ReceiptArgs ==
    [ totalAmount : {N(0), N(175150)},
      payment : { [method |-> "Cash", tendered |-> 0, change |-> N(0)],
                  [method |-> "Cash", tendered |-> 200000, change |-> N(24850)],
                  [method |-> "GCash", tendered |-> 200000, change |-> N(0)] },
      addressLines : {1, MaxAddressLines} ]

\* every combination for a short item list; the long uniform lists are paid with tender
ReceiptArgsFor(rs) ==
    IF Len(rs) <= MaxSmall THEN ReceiptArgs
    ELSE { a \in ReceiptArgs : a.totalAmount.v > 0 /\ a.payment.tendered > 0 }

NoArgs == [totalAmount |-> N(0), payment |-> [method |-> "Cash", tendered |-> 0, change |-> N(0)], addressLines |-> 1]

\* ------------------------------------------------------------------- Init
\* the call has built its jsPDF document and awaits loadImageAsDataURL
Init ==
    /\ gen \in Gens
    /\ IF gen = "sales"
         THEN salesData \in SalesInputs /\ rows = <<>>
         ELSE salesData = <<>> /\ rows \in RowInputs(gen)
    /\ IF gen = "receipt" THEN args \in ReceiptArgsFor(rows) ELSE args = NoArgs
    /\ logoDataUrl = UNDEF
    /\ pc = "await"
    /\ y = IF gen = "receipt" THEN margin ELSE TopMargin
    /\ idx = 1
    /\ pages = 1
    /\ curPage = 1
    /\ fontSize = 16
    /\ fontStyle = "normal"
    /\ cmds = <<>>
    /\ grandTotal = 0
    /\ fi = 0
    /\ awaits = 0
    /\ Alone
    /\ FieldIdle
    /\ PeriodIdle
    /\ DashboardIdle
    /\ HandlerIdle

\* ------------------------------------------------------- drawing commands
Cmd(kind, page, yy, size, style, cells) ==
    [kind |-> kind, page |-> page, y |-> yy, size |-> size, style |-> style, cells |-> cells]

\* column labels and their x positions (colPositions)
ColumnLabels(g) ==
    CASE g = "sales" -> <<"Date", "Product Name", "Qty", "Unit Price", "Total">>
      [] g = "inventory" -> <<"Product Name", "Category", "Brand", "Remaining Qty", "Status">>
      [] g = "returns" -> <<"Return ID", "Order ID", "Customer", "Date", "Reason", "Amount">>
      [] g = "receipt" -> <<"Item Description", "Qty", "Unit Price", "Amount">>

ColumnXs(g) ==
    CASE g = "sales" -> <<15, 50, 110, 130, 160>>
      [] g = "inventory" -> <<20, 70, 110, 150, 175>>
      [] g = "returns" -> <<15, 50, 80, 120, 150, 180>>
      [] g = "receipt" -> <<450, 4153, 4603, 5503>>

\* the column-header block: the labels at yy and, for the reports, the
\* separator line at yy + 3; the receipt's block is the tinted bar at yy
\* with the labels at yy + 14
HeaderBlock(g, page, yy, size, style) ==
    [kind |-> "colHeader", page |-> page, y |-> yy, size |-> size, style |-> style,
     cells |-> ColumnLabels(g), xs |-> ColumnXs(g),
     lineY |-> IF g = "receipt" THEN yy ELSE yy + 3]

\* substring(0, L) + '...' when longer than L
Truncate(t, L) == IF t.n > L THEN [s |-> t.s, n |-> L + 3, ell |-> TRUE] ELSE t

\* x?.length > L ? x.substring(0, L) + '...' : x || 'N/A'
TruncateOrNA(t, L) == IF t.s # UNDEF /\ t.n > L THEN Truncate(t, L) ELSE IF Falsy(t) THEN NA ELSE t

allowedStatuses == {"Completed", "Partially Returned", "Pending", NULL}

\* filteredOrders.flatMap(order => order.items.filter(...).map(...))
RECURSIVE flattenedData(_)
flattenedData(orders) ==
    IF orders = <<>> THEN <<>>
    ELSE LET order == Head(orders)
             mapped == [i \in 1..Len(order.items) |->
                          [productName |-> order.items[i].productName,
                           quantity |-> N(Number0(order.items[i].quantity)),
                           unitPrice |-> N(Number0(order.items[i].unitPrice)),
                           totalPrice |-> N(Number0(order.items[i].totalPrice))]]
         IN (IF order.status \in allowedStatuses THEN mapped ELSE <<>>)
            \o flattenedData(Tail(orders))

\* ---------------------------------------------------------------- actions
\* the call awaits twice before it draws: the first await resumes into a second one
LogoSettled_twice ==
    /\ pc = "await"
    /\ awaits' = awaits + 1
    /\ IF awaits = 0
         THEN pc' = "await" /\ UNCHANGED logoDataUrl
         ELSE pc' = "header" /\ \E r \in {"data:image/png", NULL} : logoDataUrl' = r
    /\ UNCHANGED <<gen, salesData, rows, args, y, idx, pages, curPage,
                   fontSize, fontStyle, cmds, grandTotal, fi>>
    /\ UNCHANGED aux

\* the awaited loadImageAsDataURL settles: a data URL, or null on any failure
LogoSettled ==
    /\ pc = "await"
    /\ \E r \in {"data:image/png", NULL} : logoDataUrl' = r
    /\ awaits' = awaits + 1
    /\ pc' = "header"
    /\ UNCHANGED <<gen, salesData, rows, args, y, idx, pages, curPage,
                   fontSize, fontStyle, cmds, grandTotal, fi>>
    /\ UNCHANGED aux

\* reports: logo, title, period line, column headers
DrawReportHeader ==
    /\ pc = "header"
    /\ gen \in Reports
    /\ LET hasLogo == logoDataUrl # NULL
           y1 == IF hasLogo THEN y + 22 + 5 ELSE y
           y2 == y1 + 7
           y3 == y2 + 10
           image == IF hasLogo THEN <<Cmd("image", curPage, y, fontSize, fontStyle, <<"logo">>)>>
                    ELSE <<>>
       IN /\ cmds' = cmds \o image \o
                       << Cmd("title", curPage, y1, 18, "bold", <<gen>>),
                          Cmd("period", curPage, y2, 10, "normal", <<"Period">>),
                          HeaderBlock(gen, curPage, y3, 9, "bold") >>
          /\ y' = y3 + 8
    /\ rows' = IF gen = "sales" THEN flattenedData(salesData) ELSE rows
    /\ fontSize' = 8
    /\ fontStyle' = "normal"
    /\ pc' = "rows"
    /\ UNCHANGED <<gen, salesData, args, logoDataUrl, idx, pages, curPage, grandTotal, fi>>
    /\ UNCHANGED <<awaits, aux>>

\* receipt: logo, shop header, 'OFFICIAL RECEIPT', the two info panels, table header
DrawReceiptHeader ==
    /\ pc = "header"
    /\ gen = "receipt"
    /\ LET hasLogo == logoDataUrl # NULL
           y1 == IF hasLogo THEN y + 590 + 100 ELSE y
           y2 == y1 + LINE_HEIGHT
           y3 == y2 + LINE_HEIGHT
           y4 == y3 + 250
           y5 == y4 + 300
           tableHeaderY == Max(y5 + (args.addressLines + 1) * LINE_HEIGHT, y5 + LINE_HEIGHT * 3) + 200
           image == IF hasLogo THEN <<Cmd("image", curPage, y, fontSize, fontStyle, <<"logo">>)>>
                    ELSE <<>>
       IN /\ cmds' = cmds \o image \o
                       << Cmd("title", curPage, y1, 12, "bold", <<"TJC AUTO SUPPLY">>),
                          Cmd("shop", curPage, y2, 10, "normal", <<"address">>),
                          Cmd("shop", curPage, y3, 10, "normal", <<"contact">>),
                          Cmd("title", curPage, y4, 16, "bold", <<"OFFICIAL RECEIPT">>),
                          Cmd("info", curPage, y5, 10, "bold", <<args.addressLines, args.payment.method>>),
                          HeaderBlock(gen, curPage, tableHeaderY, 10, "bold") >>
          /\ y' = tableHeaderY + 200
    /\ fontSize' = 10
    /\ fontStyle' = "normal"
    /\ pc' = "rows"
    /\ UNCHANGED <<gen, salesData, rows, args, logoDataUrl, idx, pages, curPage, grandTotal, fi>>
    /\ UNCHANGED <<awaits, aux>>

Threshold(g) == IF g = "receipt" THEN ReceiptThreshold ELSE RowThreshold

\* the row page break without the reset of the cursor
NewPageForRow_noReset ==
    /\ pc = "rows"
    /\ idx <= Len(rows)
    /\ y > Threshold(gen)
    /\ pages' = pages + 1
    /\ curPage' = pages + 1
    /\ pc' = IF gen = "receipt" THEN "rowDraw" ELSE "rowHeader"
    /\ UNCHANGED <<gen, salesData, rows, args, logoDataUrl, y, idx, fontSize, fontStyle,
                   cmds, grandTotal, fi>>
    /\ UNCHANGED <<awaits, aux>>

\* a row page break taken whatever the cursor
NewPageForRow_unchecked ==
    /\ pc = "rows"
    /\ idx <= Len(rows)
    /\ pages' = pages + 1
    /\ curPage' = pages + 1
    /\ y' = IF gen = "receipt" THEN margin ELSE TopMargin
    /\ pc' = IF gen = "receipt" THEN "rowDraw" ELSE "rowHeader"
    /\ UNCHANGED <<gen, salesData, rows, args, logoDataUrl, idx, fontSize, fontStyle,
                   cmds, grandTotal, fi>>
    /\ UNCHANGED <<awaits, aux>>

\* if (yPosition > 270) { doc.addPage(); yPosition = 20; ...   /   if (y > 750) { doc.addPage(); y = margin; }
NewPageForRow ==
    /\ pc = "rows"
    /\ idx <= Len(rows)
    /\ y > Threshold(gen)
    /\ pages' = pages + 1
    /\ curPage' = pages + 1
    /\ y' = IF gen = "receipt" THEN margin ELSE TopMargin
    /\ pc' = IF gen = "receipt" THEN "rowDraw" ELSE "rowHeader"
    /\ UNCHANGED <<gen, salesData, rows, args, logoDataUrl, idx, fontSize, fontStyle,
                   cmds, grandTotal, fi>>
    /\ UNCHANGED <<awaits, aux>>

\* ... drawTableHeaders(yPosition); yPosition += 8; setFont normal; setFontSize(8) }
\* only generateReturnsReportPDF's drawTableHeaders sets the font size itself
RedrawHeader ==
    /\ pc = "rowHeader"
    /\ cmds' = Append(cmds, HeaderBlock(gen, curPage, y,
                                        IF gen = "returns" THEN 9 ELSE fontSize, "bold"))
    /\ y' = y + 8
    /\ fontSize' = 8
    /\ fontStyle' = "normal"
    /\ pc' = "rowDraw"
    /\ UNCHANGED <<gen, salesData, rows, args, logoDataUrl, idx, pages, curPage, grandTotal, fi>>
    /\ UNCHANGED <<awaits, aux>>

\* the row height without the floor of minRowHeight
rowHeight_noFloor(g, it) ==
    IF g = "receipt"
      THEN it.nameLines * LINE_HEIGHT
           + (IF it.serials > 0 THEN it.serialLines ELSE 0) * SMALL_LINE_HEIGHT + 100
      ELSE RowHeight

\* Math.max(minRowHeight, nameHeight + serialHeight + 10); fixed 6 in the reports
rowHeight(g, it) ==
    IF g = "receipt"
      THEN Max(minRowHeight, it.nameLines * LINE_HEIGHT
                             + (IF it.serials > 0 THEN it.serialLines ELSE 0) * SMALL_LINE_HEIGHT + 100)
      ELSE RowHeight

\* the row cannot be drawn: item.currentStock.toString() on undefined throws a TypeError
Raises(g, it) == g = "inventory" /\ it.currentStock.k = "undefined"

\* the texts of one row, left to right
RowCells(g, it) ==
    CASE g = "sales" ->
           << "orderDate", Truncate(it.productName, 30), Number0(it.quantity),
              formatCurrency(N(Number0(it.unitPrice))), formatCurrency(N(Number0(it.totalPrice))) >>
      [] g = "inventory" ->
           << Truncate(it.productName, 35), it.category, it.brand, it.currentStock, it.stockStatus >>
      [] g = "returns" ->
           << it.return_id, it.sale_number, TruncateOrNA(it.customer_name, 20), "return_date",
              TruncateOrNA(it.return_reason, 15), formatCurrency(it.refund_amount) >>
      [] g = "receipt" ->
           LET qty == Number(OrZero(it.quantity))
               unit == Number(OrZero(it.price))
           IN << it.name, qty, peso(unit), peso(Times(unit, qty)) >>

\* the running total fed from the unit price instead of the line total
RowAmount_unitPrice(g, it) ==
    CASE g = "sales" -> Number0(it.unitPrice)
      [] g = "returns" -> Number0(it.refund_amount)
      [] OTHER -> 0

\* what the row adds to the running total
RowAmount(g, it) ==
    CASE g = "sales" -> Number0(it.totalPrice)
      [] g = "returns" -> Number0(it.refund_amount)
      [] OTHER -> 0

\* the body of the forEach after the page-break check
DrawRow ==
    /\ \/ pc = "rows" /\ idx <= Len(rows) /\ ~(y > Threshold(gen))
       \/ pc = "rowDraw"
    /\ ~Raises(gen, rows[idx])
    /\ LET it == rows[idx]
           h == rowHeight(gen, it)
       IN /\ cmds' = Append(cmds,
                       [kind |-> "row", page |-> curPage, y |-> y, size |-> fontSize,
                        style |-> fontStyle, cells |-> RowCells(gen, it), h |-> h,
                        index |-> idx,
                        fill |-> (gen # "receipt" /\ (idx - 1) % 2 = 0)])
          /\ y' = y + h
          /\ grandTotal' = grandTotal + RowAmount(gen, it)
    /\ idx' = idx + 1
    /\ pc' = "rows"
    /\ UNCHANGED <<gen, salesData, rows, args, logoDataUrl, pages, curPage, fontSize, fontStyle, fi>>
    /\ UNCHANGED <<awaits, aux>>

\* the body of the forEach throws: the call rejects and no document is returned
RowRaises ==
    /\ \/ pc = "rows" /\ idx <= Len(rows) /\ ~(y > Threshold(gen))
       \/ pc = "rowDraw"
    /\ Raises(gen, rows[idx])
    /\ pc' = "raised"
    /\ UNCHANGED <<gen, salesData, rows, args, logoDataUrl, y, idx, pages, curPage,
                   fontSize, fontStyle, cmds, grandTotal, fi>>
    /\ UNCHANGED <<awaits, aux>>

\* sales: if (yPosition > 265) { doc.addPage(); yPosition = 20; }
NewPageForGrandTotal ==
    /\ pc = "rows"
    /\ gen = "sales"
    /\ idx > Len(rows)
    /\ y > GrandTotalThreshold
    /\ pages' = pages + 1
    /\ curPage' = pages + 1
    /\ y' = TopMargin
    /\ pc' = "grandTotal"
    /\ UNCHANGED <<gen, salesData, rows, args, logoDataUrl, idx, fontSize, fontStyle,
                   cmds, grandTotal, fi>>
    /\ UNCHANGED <<awaits, aux>>

\* sales: closing line, 'Grand Total:' and its value
DrawGrandTotal ==
    /\ \/ pc = "rows" /\ gen = "sales" /\ idx > Len(rows) /\ ~(y > GrandTotalThreshold)
       \/ pc = "grandTotal"
    /\ cmds' = cmds \o
          << Cmd("closingLine", curPage, y + 2, fontSize, fontStyle, <<>>),
             Cmd("grandTotal", curPage, y + 8, 9, "bold", <<"Grand Total:", formatCurrency(N(grandTotal))>>) >>
    /\ y' = y + 18
    /\ fontSize' = 9
    /\ fontStyle' = "bold"
    /\ pc' = "summary"
    /\ UNCHANGED <<gen, salesData, rows, args, logoDataUrl, idx, pages, curPage, grandTotal, fi>>
    /\ UNCHANGED <<awaits, aux>>

\* inventory, returns: yPosition += 5; doc.line(...); yPosition += 10
DrawTotalsLine ==
    /\ pc = "rows"
    /\ gen \in {"inventory", "returns"}
    /\ idx > Len(rows)
    /\ cmds' = Append(cmds, Cmd("closingLine", curPage, y + 5, fontSize, fontStyle, <<>>))
    /\ y' = y + 15
    /\ pc' = "summary"
    /\ UNCHANGED <<gen, salesData, rows, args, logoDataUrl, idx, pages, curPage,
                   fontSize, fontStyle, grandTotal, fi>>
    /\ UNCHANGED <<awaits, aux>>

\* if (yPosition + 35 > 280) { doc.addPage(); yPosition = 30; }   (30 in the inventory report)
NewPageForSummary ==
    /\ pc = "summary"
    /\ y + SummaryHeight(gen) > SummaryLimit
    /\ pages' = pages + 1
    /\ curPage' = pages + 1
    /\ y' = SummaryTop
    /\ pc' = "summaryDraw"
    /\ UNCHANGED <<gen, salesData, rows, args, logoDataUrl, idx, fontSize, fontStyle,
                   cmds, grandTotal, fi>>
    /\ UNCHANGED <<awaits, aux>>

\* --------------------------------------------------------- summary values
RECURSIVE SumOver(_, _)
SumOver(f, n) == IF n = 0 THEN 0 ELSE f[n] + SumOver(f, n - 1)

\* the orders taken without the status filter
relevantOrders_all(orders) == orders

\* filteredOrders.filter(order => allowedStatuses.includes(order.status))
relevantOrders(orders) == SelectSeq(orders, LAMBDA o : o.status \in allowedStatuses)

totalRevenue(orders) ==
    LET rel == relevantOrders(orders)
    IN SumOver([i \in 1..Len(rel) |-> Number0(rel[i].totalAmount)], Len(rel))

totalItems(rs) == SumOver([i \in 1..Len(rs) |-> rs[i].quantity.v], Len(rs))

\* totalRevenue / totalTransactions as formatCurrency renders it: to the nearest centavo
avgTransactionValue(rev, n) == IF n > 0 THEN (2 * rev + n) \div (2 * n) ELSE 0

\* productCounts[name] = (productCounts[name] || 0) + quantity
productCounts(rs, name) ==
    SumOver([i \in 1..Len(rs) |-> IF rs[i].productName = name THEN rs[i].quantity.v ELSE 0], Len(rs))

ProductNames(rs) == { rs[i].productName : i \in 1..Len(rs) }

\* the number a property name stands for when it is a canonical array index, else -1
ArrayIndex(name) == IF name.s = "6205" THEN 6205 ELSE -1

\* names in order of first assignment to productCounts
RECURSIVE InsertionOrder(_, _)
InsertionOrder(rs, seen) ==
    IF rs = <<>> THEN <<>>
    ELSE IF Head(rs).productName \in seen THEN InsertionOrder(Tail(rs), seen)
    ELSE <<Head(rs).productName>> \o InsertionOrder(Tail(rs), seen \cup {Head(rs).productName})

RECURSIVE AscendingIndex(_)
AscendingIndex(S) ==
    IF S = {} THEN <<>>
    ELSE LET m == CHOOSE x \in S : \A z \in S : ArrayIndex(x) <= ArrayIndex(z)
         IN <<m>> \o AscendingIndex(S \ {m})

\* Object.keys(productCounts): array-index names ascending, then the others in insertion order
ObjectKeys(rs) ==
    AscendingIndex({ nm \in ProductNames(rs) : ArrayIndex(nm) >= 0 })
    \o SelectSeq(InsertionOrder(rs, {}), LAMBDA nm : ArrayIndex(nm) < 0)

\* the reduction with >= : the earlier key survives a tie
RECURSIVE reduceBest_keepOnTie(_, _, _)
reduceBest_keepOnTie(keys, a, rs) ==
    IF keys = <<>> THEN a
    ELSE LET b == Head(keys)
             keep == a \in ProductNames(rs) /\ productCounts(rs, a) >= productCounts(rs, b)
         IN reduceBest_keepOnTie(Tail(keys), IF keep THEN a ELSE b, rs)

\* the reduction with the operands swapped: the seed survives a missing count
RECURSIVE reduceBest_seedKept(_, _, _)
reduceBest_seedKept(keys, a, rs) ==
    IF keys = <<>> THEN a
    ELSE LET b == Head(keys)
             keep == a \notin ProductNames(rs) \/ productCounts(rs, a) > productCounts(rs, b)
         IN reduceBest_seedKept(Tail(keys), IF keep THEN a ELSE b, rs)

\* keys.reduce((a, b) => productCounts[a] > productCounts[b] ? a : b, a0)
\* productCounts[a] is undefined, and the comparison false, when a is not a key
RECURSIVE reduceBest(_, _, _)
reduceBest(keys, a, rs) ==
    IF keys = <<>> THEN a
    ELSE LET b == Head(keys)
             keep == a \in ProductNames(rs) /\ productCounts(rs, a) > productCounts(rs, b)
         IN reduceBest(Tail(keys), IF keep THEN a ELSE b, rs)

bestSellingProduct(rs) == reduceBest(ObjectKeys(rs), NA, rs)

\* inventoryData.reduce((sum, item) => sum + item.currentStock, 0): a number
\* while every stock is a number, a string once + has met a string
totalRemaining(rs) ==
    IF \A i \in 1..Len(rs) : rs[i].currentStock.k = "num"
      THEN N(SumOver([i \in 1..Len(rs) |-> rs[i].currentStock.v], Len(rs)))
      ELSE NaNText

\* the text lines of the summary block below its heading, top to bottom
SummaryLines(g) ==
    CASE g = "sales" ->
           LET rev == totalRevenue(salesData)
               n == Len(relevantOrders(salesData))
           IN << << "Total Revenue", formatCurrency(N(rev)),
                    "Avg Transaction Value", formatCurrency(N(avgTransactionValue(rev, n))) >>,
                 << "Total Items Sold", totalItems(rows),
                    "Best Selling Product", bestSellingProduct(rows) >>,
                 << "Total Transactions", n >> >>
      [] g = "inventory" ->
           << << "Total Items", Len(rows) >>,
              << "Low Stock Items", Len(SelectSeq(rows, LAMBDA it : it.stockStatus = "Low Stock")) >>,
              << "Total Remaining", totalRemaining(rows) >> >>
      [] g = "returns" ->
           << << "Total Returns Processed", Len(rows),
                 "Total Refunded Amount", formatCurrency(N(grandTotal)) >>,
              << "Defective/Damaged Items",
                 Len(SelectSeq(rows, LAMBDA it : it.return_reason.s = "Defective/Damaged")),
                 "Items Restocked", Len(SelectSeq(rows, LAMBDA it : it.restocked)) >> >>

\* heading, then one text line every 6 below heading + 8
DrawSummary ==
    /\ \/ pc = "summary" /\ ~(y + SummaryHeight(gen) > SummaryLimit)
       \/ pc = "summaryDraw"
    /\ LET lines == SummaryLines(gen)
           headSize == IF gen = "sales" THEN 10 ELSE 12
           bodySize == IF gen = "sales" THEN 9 ELSE 10
       IN /\ cmds' = cmds \o
                 << Cmd("summaryHead", curPage, y, headSize, "bold", <<gen>>) >> \o
                 [i \in 1..Len(lines) |->
                    Cmd("summaryLine", curPage, y + 8 + 6 * (i - 1), bodySize, "normal", lines[i])]
          /\ y' = y + 8 + 6 * (Len(lines) - 1)
          /\ fontSize' = bodySize
    /\ fontStyle' = "normal"
    /\ pc' = "footer"
    /\ fi' = 1
    /\ UNCHANGED <<gen, salesData, rows, args, logoDataUrl, idx, pages, curPage, grandTotal>>
    /\ UNCHANGED <<awaits, aux>>

\* the footer loop one page short
pageCount_short == pages - 1

\* const pageCount = doc.internal.getNumberOfPages()
pageCount == pages

\* one turn of: for (let i = 1; i <= pageCount; i++) { doc.setPage(i); ... }
StampFooter ==
    /\ pc = "footer"
    /\ fi <= pageCount
    /\ curPage' = fi
    /\ fontSize' = 7
    /\ fontStyle' = "normal"
    /\ cmds' = cmds \o
          << Cmd("footerUser", fi, footerY, 7, "normal", <<"Generated by", "adminName">>),
             Cmd("footerDate", fi, footerY + 4, 7, "normal", <<"Report Generated", "today">>),
             Cmd("footerPage", fi, footerY, 7, "normal", <<"Page", fi, "of", pageCount>>) >>
    /\ fi' = fi + 1
    /\ UNCHANGED <<gen, salesData, rows, args, logoDataUrl, pc, y, idx, pages, grandTotal>>
    /\ UNCHANGED <<awaits, aux>>

\* receipt: Subtotal, Cash Tendered / Change, TOTAL, closing line
DrawReceiptTotals ==
    /\ pc = "rows"
    /\ gen = "receipt"
    /\ idx > Len(rows)
    /\ LET y1 == y + 150
           y2 == y1 + LINE_HEIGHT
           cash == args.payment.method = "Cash" /\ args.payment.tendered > 0
           y3 == IF cash THEN y2 + LINE_HEIGHT + (LINE_HEIGHT * 3) \div 2 ELSE y2
           y4 == Max(y3 + LINE_HEIGHT * 2, 8000)
       IN /\ cmds' = cmds \o
                 << Cmd("subtotal", curPage, y1, 10, "normal", <<"Subtotal:", peso(args.totalAmount)>>) >> \o
                 (IF cash
                    THEN << Cmd("tendered", curPage, y2, 10, "normal",
                                <<"Cash Tendered:", peso(N(args.payment.tendered))>>),
                            Cmd("change", curPage, y2 + LINE_HEIGHT, 10, "normal",
                                <<"Change:", peso(args.payment.change)>>) >>
                    ELSE <<>>) \o
                 << Cmd("total", curPage, y3, 14, "bold", <<"TOTAL:", peso(args.totalAmount)>>),
                    Cmd("thanks", curPage, y4, 10, "italic", <<"Thank you for your purchase!">>) >>
          /\ y' = y4
    /\ fontSize' = 10
    /\ fontStyle' = "italic"
    /\ pc' = "return"
    /\ UNCHANGED <<gen, salesData, rows, args, logoDataUrl, idx, pages, curPage, grandTotal, fi>>
    /\ UNCHANGED <<awaits, aux>>

\* return doc
ReturnDoc ==
    /\ \/ pc = "footer" /\ fi > pageCount
       \/ pc = "return"
    /\ pc' = "done"
    /\ UNCHANGED <<gen, salesData, rows, args, logoDataUrl, y, idx, pages, curPage,
                   fontSize, fontStyle, cmds, grandTotal, fi>>
    /\ UNCHANGED <<awaits, aux>>

Next ==
    \/ LogoSettled
    \/ DrawReportHeader
    \/ DrawReceiptHeader
    \/ NewPageForRow
    \/ RedrawHeader
    \/ DrawRow
    \/ RowRaises
    \/ NewPageForGrandTotal
    \/ DrawGrandTotal
    \/ DrawTotalsLine
    \/ NewPageForSummary
    \/ DrawSummary
    \/ StampFooter
    \/ DrawReceiptTotals
    \/ ReturnDoc

Spec == Init /\ [][Next]_vars




\* ================================================= two overlapping calls
\* Two calls of one generator in one JavaScript thread.  The variables gen ..
\* awaits are the locals of the call the thread ran last (doc, yPosition,
\* grandTotal, ... are declared inside the generator, pdfGenerator.js:61-64,
\* 132); parked holds the locals of the other call.  A call gives up the
\* thread only where it awaits or returns, so the thread passes to the other
\* call only when this one stands at its await or has finished.
ThisCall ==
    [gen |-> gen, salesData |-> salesData, rows |-> rows, args |-> args,
     logoDataUrl |-> logoDataUrl, pc |-> pc, y |-> y, idx |-> idx, pages |-> pages,
     curPage |-> curPage, fontSize |-> fontSize, fontStyle |-> fontStyle, cmds |-> cmds,
     grandTotal |-> grandTotal, fi |-> fi, awaits |-> awaits]

\* the rows the two calls are given: one item repeated
PairItems(g) ==
    CASE g = "sales" -> { it \in SalesItems : it.productName.s = "Brake Pad" }
      [] g = "inventory" -> { it \in InventoryItems : it.productName.s \in {"Brake Pad", "Fan Belt"} }
      [] g = "returns" -> { it \in ReturnItems : it.return_id = "RET-1" }
      [] g = "receipt" -> { it \in ReceiptItems : it.name.s = "Brake Pad" }

PairArgs == [totalAmount |-> N(175150),
             payment |-> [method |-> "Cash", tendered |-> 200000, change |-> N(24850)],
             addressLines |-> 1]

\* a call that has built its document and awaits the logo
StartedCall(g, n, r) ==
    [gen |-> g,
     salesData |-> IF g = "sales"
                     THEN << [status |-> "Completed", totalAmount |-> N(10000),
                              items |-> [i \in 1..n |-> r]] >>
                     ELSE <<>>,
     rows |-> IF g = "sales" THEN <<>> ELSE [i \in 1..n |-> r],
     args |-> IF g = "receipt" THEN PairArgs ELSE NoArgs,
     logoDataUrl |-> UNDEF, pc |-> "await",
     y |-> IF g = "receipt" THEN margin ELSE TopMargin,
     idx |-> 1, pages |-> 1, curPage |-> 1, fontSize |-> 16, fontStyle |-> "normal",
     cmds |-> <<>>, grandTotal |-> 0, fi |-> 0, awaits |-> 0]

\* both calls have started and await the logo; the second was given the same
\* rows as the first, or one row less
InitTwo ==
    /\ \E g \in Gens, n \in 0..MaxPairRows :
         \E r \in PairItems(g), m \in {n, Max(n - 1, 0)} :
            /\ gen = StartedCall(g, n, r).gen
            /\ salesData = StartedCall(g, n, r).salesData
            /\ rows = StartedCall(g, n, r).rows
            /\ args = StartedCall(g, n, r).args
            /\ logoDataUrl = StartedCall(g, n, r).logoDataUrl
            /\ pc = StartedCall(g, n, r).pc
            /\ y = StartedCall(g, n, r).y
            /\ idx = StartedCall(g, n, r).idx
            /\ pages = StartedCall(g, n, r).pages
            /\ curPage = StartedCall(g, n, r).curPage
            /\ fontSize = StartedCall(g, n, r).fontSize
            /\ fontStyle = StartedCall(g, n, r).fontStyle
            /\ cmds = StartedCall(g, n, r).cmds
            /\ grandTotal = StartedCall(g, n, r).grandTotal
            /\ fi = StartedCall(g, n, r).fi
            /\ awaits = StartedCall(g, n, r).awaits
            /\ parked = StartedCall(g, m, r)
    /\ running = 1
    /\ FieldIdle
    /\ PeriodIdle
    /\ DashboardIdle
    /\ HandlerIdle

\* the thread passes to the other call, with the cursor in a variable both calls share
Switch_sharedCursor ==
    /\ pc \in {"await", "done", "raised"}
    /\ parked.pc = "await"
    /\ parked' = ThisCall
    /\ running' = 3 - running
    /\ gen' = parked.gen
    /\ salesData' = parked.salesData
    /\ rows' = parked.rows
    /\ args' = parked.args
    /\ logoDataUrl' = parked.logoDataUrl
    /\ pc' = parked.pc
    /\ idx' = parked.idx
    /\ pages' = parked.pages
    /\ curPage' = parked.curPage
    /\ fontSize' = parked.fontSize
    /\ fontStyle' = parked.fontStyle
    /\ cmds' = parked.cmds
    /\ grandTotal' = parked.grandTotal
    /\ fi' = parked.fi
    /\ awaits' = parked.awaits
    /\ UNCHANGED <<y, period, dashboard, fieldIn, fieldOut, req, db, sales, total, salesWithItems, hpc, res>>

\* the thread passes to the other call: this call is suspended at its await
\* or has finished, and the other one's await is about to resume
Switch ==
    /\ pc \in {"await", "done", "raised"}
    /\ parked.pc = "await"
    /\ parked' = ThisCall
    /\ running' = 3 - running
    /\ gen' = parked.gen
    /\ salesData' = parked.salesData
    /\ rows' = parked.rows
    /\ args' = parked.args
    /\ logoDataUrl' = parked.logoDataUrl
    /\ pc' = parked.pc
    /\ y' = parked.y
    /\ idx' = parked.idx
    /\ pages' = parked.pages
    /\ curPage' = parked.curPage
    /\ fontSize' = parked.fontSize
    /\ fontStyle' = parked.fontStyle
    /\ cmds' = parked.cmds
    /\ grandTotal' = parked.grandTotal
    /\ fi' = parked.fi
    /\ awaits' = parked.awaits
    /\ UNCHANGED <<period, dashboard, fieldIn, fieldOut, req, db, sales, total, salesWithItems, hpc, res>>

NextTwo ==
    \/ Next
    \/ Switch

SpecTwo == InitTwo /\ [][NextTwo]_vars

\* ================================================ the earlier generator
\* generateSalesReportPDF as it stands in the repository's second copy of
\* pdfGenerator.js: the title and the period line are drawn inside
\* if (logoDataUrl), the table starts at the fixed yPosition = 50, the row
\* check is yPosition > 250 and nothing checks the page before the closing
\* block.  It runs on the same state as the generators above, gen = "salesLegacy".
LegacyTableTop == 50        \* let yPosition = 50
LegacyRowThreshold == 250   \* if (yPosition > 250)
LegacyPageTop == 30         \* yPosition = 30 after addPage
LegacyFooterY == 280

LegacyInputs ==
    { << [status |-> st, totalAmount |-> N(10000), items |-> [i \in 1..n |-> r]] >> :
        st \in Statuses, n \in 0..MaxRows, r \in SalesItems }

InitLegacy ==
    /\ gen = "salesLegacy"
    /\ salesData \in LegacyInputs
    /\ rows = <<>>
    /\ args = NoArgs
    /\ logoDataUrl = UNDEF
    /\ pc = "await"
    /\ y = 0
    /\ idx = 1
    /\ pages = 1
    /\ curPage = 1
    /\ fontSize = 16
    /\ fontStyle = "normal"
    /\ cmds = <<>>
    /\ grandTotal = 0
    /\ fi = 0
    /\ awaits = 0
    /\ Alone
    /\ FieldIdle
    /\ PeriodIdle
    /\ DashboardIdle
    /\ HandlerIdle

\* the five labels and the line under them
LegacyHeaderBlock(page, yy) ==
    [kind |-> "colHeader", page |-> page, y |-> yy, size |-> 8, style |-> "bold",
     cells |-> <<"Date", "Product Name", "Qty", "Unit Price", "Total">>,
     xs |-> <<25, 50, 110, 125, 150>>, lineY |-> yy + 8]

\* if (logoDataUrl) { image, title, period }; separator line; column headers
LegacyDrawHeader ==
    /\ pc = "header"
    /\ gen = "salesLegacy"
    /\ LET hasLogo == logoDataUrl # NULL
           top == IF hasLogo
                    THEN << Cmd("image", curPage, 12, fontSize, fontStyle, <<"logo">>),
                            Cmd("title", curPage, 12 + 22 + 5, 14, "bold", <<"Sales Report">>),
                            Cmd("period", curPage, 12 + 22 + 5 + 7, 10, "normal", <<"Period">>) >>
                    ELSE <<>>
           ruleSize == IF hasLogo THEN 10 ELSE fontSize
       IN cmds' = cmds \o top \o
                    << Cmd("rule", curPage, LegacyTableTop, ruleSize, "normal", <<>>),
                       LegacyHeaderBlock(curPage, LegacyTableTop + 10) >>
    /\ rows' = flattenedData(salesData)
    /\ y' = LegacyTableTop + 10 + 8 + 5
    /\ fontSize' = 7
    /\ fontStyle' = "normal"
    /\ pc' = "rows"
    /\ UNCHANGED <<gen, salesData, args, logoDataUrl, idx, pages, curPage, grandTotal, fi>>
    /\ UNCHANGED <<awaits, aux>>

\* if (yPosition > 250) { addPage; yPosition = 30; headers; line; yPosition += 13 }
LegacyNewPage ==
    /\ pc = "rows"
    /\ gen = "salesLegacy"
    /\ idx <= Len(rows)
    /\ y > LegacyRowThreshold
    /\ pages' = pages + 1
    /\ curPage' = pages + 1
    /\ cmds' = Append(cmds, LegacyHeaderBlock(pages + 1, LegacyPageTop))
    /\ y' = LegacyPageTop + 8 + 5
    /\ pc' = "rowDraw"
    /\ UNCHANGED <<gen, salesData, rows, args, logoDataUrl, idx, fontSize, fontStyle, grandTotal, fi>>
    /\ UNCHANGED <<awaits, aux>>

\* the body of the forEach after the page-break check
LegacyDrawRow ==
    /\ gen = "salesLegacy"
    /\ \/ pc = "rows" /\ idx <= Len(rows) /\ ~(y > LegacyRowThreshold)
       \/ pc = "rowDraw"
    /\ cmds' = Append(cmds,
                  [kind |-> "row", page |-> curPage, y |-> y, size |-> fontSize,
                   style |-> fontStyle, cells |-> RowCells("sales", rows[idx]), h |-> RowHeight,
                   index |-> idx, fill |-> FALSE])
    /\ y' = y + RowHeight
    /\ grandTotal' = grandTotal + Number0(rows[idx].totalPrice)
    /\ idx' = idx + 1
    /\ pc' = "rows"
    /\ UNCHANGED <<gen, salesData, rows, args, logoDataUrl, pages, curPage, fontSize, fontStyle, fi>>
    /\ UNCHANGED <<awaits, aux>>

\* line, Grand Total, line, Sales Summary and its three text lines, line
LegacyDrawClosing ==
    /\ pc = "rows"
    /\ gen = "salesLegacy"
    /\ idx > Len(rows)
    /\ LET lines == SummaryLines("sales")
           yTotal == y + 5 + 10
           yHead == yTotal + 10 + 15
       IN /\ cmds' = cmds \o
                 << Cmd("closingLine", curPage, y + 5, fontSize, fontStyle, <<>>),
                    Cmd("grandTotal", curPage, yTotal, 8, "bold",
                        <<"Grand Total:", formatCurrency(N(grandTotal))>>),
                    Cmd("closingLine", curPage, yTotal + 10, 8, "bold", <<>>),
                    Cmd("summaryHead", curPage, yHead, 10, "bold", <<"Sales Summary">>) >> \o
                 [i \in 1..Len(lines) |->
                    Cmd("summaryLine", curPage, yHead + 12 + 8 * (i - 1), 8, "normal", lines[i])] \o
                 << Cmd("closingLine", curPage, yHead + 12 + 8 + 8 + 15, 8, "normal", <<>>) >>
          /\ y' = yHead + 12 + 8 + 8 + 15 + 15
    /\ fontSize' = 8
    /\ fontStyle' = "normal"
    /\ pc' = "footer"
    /\ fi' = 1
    /\ UNCHANGED <<gen, salesData, rows, args, logoDataUrl, idx, pages, curPage, grandTotal>>
    /\ UNCHANGED <<awaits, aux>>

\* one turn of the footer loop: user and date at 280, page number at 285
LegacyStampFooter ==
    /\ pc = "footer"
    /\ gen = "salesLegacy"
    /\ fi <= pageCount
    /\ curPage' = fi
    /\ fontSize' = 7
    /\ fontStyle' = "normal"
    /\ cmds' = cmds \o
          << Cmd("footerUser", fi, LegacyFooterY, 7, "normal", <<"Generated by", "adminName">>),
             Cmd("footerDate", fi, LegacyFooterY, 7, "normal", <<"Report Generated", "today">>),
             Cmd("footerPage", fi, LegacyFooterY + 5, 7, "normal", <<"Page", fi, "of", pageCount>>) >>
    /\ fi' = fi + 1
    /\ UNCHANGED <<gen, salesData, rows, args, logoDataUrl, pc, y, idx, pages, grandTotal>>
    /\ UNCHANGED <<awaits, aux>>

NextLegacy ==
    \/ LogoSettled
    \/ LegacyDrawHeader
    \/ LegacyNewPage
    \/ LegacyDrawRow
    \/ LegacyDrawClosing
    \/ LegacyStampFooter
    \/ ReturnDoc

SpecLegacy == InitLegacy /\ [][NextLegacy]_vars

\* ============================================================ text fields
\* How one text field of a row or of the receipt's customer panel reaches
\* doc.text.  A string is the sequence of its characters.
Alphabet ==
    << "a", "b", "c", "d", "e", "f", "g", "h", "i", "j", "k", "l", "m",
       "n", "o", "p", "q", "r", "s", "t", "u", "v", "w", "x", "y", "z" >>

\* a string of n letters; position i holds letter (i + k) mod 26
Text(n, k) == [i \in 1..n |-> Alphabet[((i + k) % 26) + 1]]

Str(s) == [k |-> "str", s |-> s]
StrUndefined == [k |-> "undefined", s |-> <<>>]

Ellipsis == <<".", ".", ".">>
NotAvailable == <<"N", "/", "A">>
InStorePickup == <<"I", "n", "-", "S", "t", "o", "r", "e", " ", "P", "i", "c", "k", "u", "p">>

Rendered(s) == [k |-> "text", s |-> s]
TypeError == [k |-> "TypeError", s |-> <<>>]

\* s.substring(0, n)
substring0(s, n) == SubSeq(s, 1, IF n < Len(s) THEN n ELSE Len(s))

Fields ==
    { "sales.productName", "inventory.productName", "returns.customer_name",
      "returns.return_reason", "receipt.customerName", "receipt.address" }

\* the literal each site compares the length with
FieldLimit(f) ==
    CASE f = "sales.productName" -> 30
      [] f = "inventory.productName" -> 35
      [] f = "returns.customer_name" -> 20
      [] f = "returns.return_reason" -> 15

TextValues == {StrUndefined} \cup { Str(Text(n, k)) : n \in 0..MaxLen, k \in {0, 7} }

ShippingOptions == {UNDEF, "In-Store Pickup", "Delivery"}

\* the receipt's default parameter: shippingOption = 'In-Store Pickup'
shippingOption(v) == IF v = UNDEF THEN "In-Store Pickup" ELSE v

\* productName.substring(0, L) + '...' with the last three letters cut to make room
truncateName_fit(v, L) ==
    IF v.k = "undefined" THEN TypeError
    ELSE IF Len(v.s) > L THEN Rendered(substring0(v.s, L - 3) \o Ellipsis)
    ELSE Rendered(v.s)

\* item.productName.length > L ? item.productName.substring(0, L) + '...' : item.productName
truncateName(v, L) ==
    IF v.k = "undefined" THEN TypeError
    ELSE IF Len(v.s) > L THEN Rendered(substring0(v.s, L) \o Ellipsis)
    ELSE Rendered(v.s)

\* the cut text is marked with four dots
truncateOrNA_fourDots(v, L) ==
    IF v.k = "str" /\ Len(v.s) > L THEN Rendered(substring0(v.s, L) \o <<".">> \o Ellipsis)
    ELSE IF v.k = "undefined" \/ v.s = <<>> THEN Rendered(NotAvailable)
    ELSE Rendered(v.s)

\* x?.length > L ? x.substring(0, L) + '...' : x || 'N/A'
truncateOrNA(v, L) ==
    IF v.k = "str" /\ Len(v.s) > L THEN Rendered(substring0(v.s, L) \o Ellipsis)
    ELSE IF v.k = "undefined" \/ v.s = <<>> THEN Rendered(NotAvailable)
    ELSE Rendered(v.s)

\* `${customerName || 'N/A'}`
customerOrNA(v) ==
    IF v.k = "undefined" \/ v.s = <<>> THEN Rendered(NotAvailable) ELSE Rendered(v.s)

\* the address fallback that leaves the text empty
addressOrFallback_blank(v, ship) ==
    IF v.k = "str" /\ v.s # <<>> THEN Rendered(v.s) ELSE Rendered(<<>>)

\* address || (shippingOption === 'In-Store Pickup' ? 'In-Store Pickup' : 'N/A')
addressOrFallback(v, ship) ==
    IF v.k = "str" /\ v.s # <<>> THEN Rendered(v.s)
    ELSE IF shippingOption(ship) = "In-Store Pickup" THEN Rendered(InStorePickup)
    ELSE Rendered(NotAvailable)

\* everything of a generation call at rest
LayoutIdle ==
    /\ gen = "none"
    /\ salesData = <<>>
    /\ rows = <<>>
    /\ args = NoArgs
    /\ logoDataUrl = UNDEF
    /\ pc = "idle"
    /\ y = 0
    /\ idx = 1
    /\ pages = 1
    /\ curPage = 1
    /\ fontSize = 16
    /\ fontStyle = "normal"
    /\ cmds = <<>>
    /\ grandTotal = 0
    /\ fi = 0
    /\ awaits = 0
    /\ Alone

layout == <<gen, salesData, rows, args, logoDataUrl, pc, y, idx, pages, curPage,
            fontSize, fontStyle, cmds, grandTotal, fi, awaits, running, parked>>

handler == <<req, db, sales, total, salesWithItems, hpc, res>>

\* a row or the receipt panel is about to render one text field
InitField ==
    /\ LayoutIdle
    /\ \E f \in Fields, v \in TextValues, ship \in ShippingOptions :
          /\ f # "receipt.address" => ship = UNDEF
          /\ fieldIn = [field |-> f, value |-> v, shippingOption |-> ship]
    /\ fieldOut = NotRendered
    /\ PeriodIdle
    /\ DashboardIdle
    /\ HandlerIdle

\* sales and inventory rows: the product name
RenderProductName ==
    /\ fieldOut = NotRendered
    /\ fieldIn.field \in {"sales.productName", "inventory.productName"}
    /\ fieldOut' = truncateName(fieldIn.value, FieldLimit(fieldIn.field))
    /\ UNCHANGED <<layout, period, dashboard, fieldIn, handler>>

\* returns rows: customer name and reason
RenderReturnsText ==
    /\ fieldOut = NotRendered
    /\ fieldIn.field \in {"returns.customer_name", "returns.return_reason"}
    /\ fieldOut' = truncateOrNA(fieldIn.value, FieldLimit(fieldIn.field))
    /\ UNCHANGED <<layout, period, dashboard, fieldIn, handler>>

\* receipt: the customer line of the info panel
RenderReceiptCustomer ==
    /\ fieldOut = NotRendered
    /\ fieldIn.field = "receipt.customerName"
    /\ fieldOut' = customerOrNA(fieldIn.value)
    /\ UNCHANGED <<layout, period, dashboard, fieldIn, handler>>

\* receipt: the address line of the info panel
RenderReceiptAddress ==
    /\ fieldOut = NotRendered
    /\ fieldIn.field = "receipt.address"
    /\ fieldOut' = addressOrFallback(fieldIn.value, fieldIn.shippingOption)
    /\ UNCHANGED <<layout, period, dashboard, fieldIn, handler>>

NextField ==
    \/ RenderProductName
    \/ RenderReturnsText
    \/ RenderReceiptCustomer
    \/ RenderReceiptAddress

SpecField == InitField /\ [][NextField]_vars


\* ============================================================ period text
\* formatPeriodText and formatDate as functions of their arguments.  A date
\* string is the calendar date it denotes in the browser's time zone, or the
\* empty string; a text is the sequence of its pieces, numbers in decimal.
Date(yy, mm, dd) == [k |-> "date", y |-> yy, m |-> mm, d |-> dd]
EmptyDate == [k |-> "empty", y |-> 0, m |-> 0, d |-> 0]

\* new Date('') is an Invalid Date
Invalid(dt) == dt.k = "empty"

DateValues ==
    { EmptyDate,
      Date(2024, 1, 29), Date(2024, 2, 4), Date(2024, 12, 30), Date(2025, 1, 5),
      Date(2025, 1, 6), Date(2025, 1, 12), Date(2025, 1, 29), Date(2025, 12, 31) }

\* the labels a caller passes; an omitted label takes the default 'Daily'
RangeLabels == {"Daily", "Weekly", "Monthly", "weekly", "Yearly", UNDEF}

\* the default parameter of generateSalesReportPDF: rangeLabel = 'Daily'
rangeLabel(v) == IF v = UNDEF THEN "Daily" ELSE v

\* the character U+2013 of the same-month template
EnDash == "[U+2013]"

DigitText == <<"0", "1", "2", "3", "4", "5", "6", "7", "8", "9">>

\* the decimal digits of a natural number
RECURSIVE Decimal(_)
Decimal(n) == IF n < 10 THEN <<DigitText[n + 1]>> ELSE Append(Decimal(n \div 10), DigitText[(n % 10) + 1])

\* toLocaleDateString('en-US', { month: 'short' }) and { month: 'long' }
ShortMonths ==
    <<"Jan", "Feb", "Mar", "Apr", "May", "Jun", "Jul", "Aug", "Sep", "Oct", "Nov", "Dec">>
LongMonths ==
    <<"January", "February", "March", "April", "May", "June", "July", "August",
      "September", "October", "November", "December">>

shortMonth(dt) == IF Invalid(dt) THEN <<"Invalid Date">> ELSE <<ShortMonths[dt.m]>>

\* getDate() and getFullYear() inside a template literal; NaN for an Invalid Date
getDate(dt) == IF Invalid(dt) THEN <<"NaN">> ELSE Decimal(dt.d)
getFullYear(dt) == IF Invalid(dt) THEN <<"NaN">> ELSE Decimal(dt.y)

\* start.getMonth() !== end.getMonth(); NaN !== NaN is true
monthsDiffer(s, e) == Invalid(s) \/ Invalid(e) \/ s.m # e.m

\* toLocaleDateString('en-US', { month: 'long', year: 'numeric' })
monthYear(dt) ==
    IF Invalid(dt) THEN <<"Invalid Date">> ELSE <<LongMonths[dt.m], " ">> \o Decimal(dt.y)

\* formatDate: 'N/A' for a falsy string, else 'Month D, YYYY'
formatDate(dt) ==
    IF dt.k = "empty" THEN <<"N/A">>
    ELSE <<LongMonths[dt.m], " ">> \o Decimal(dt.d) \o <<", ">> \o Decimal(dt.y)

formatPeriodText_startYear(s, e, label) ==
    IF label = "Weekly"
      THEN IF monthsDiffer(s, e)
             THEN shortMonth(s) \o <<" ">> \o getDate(s) \o <<" - ">>
                  \o shortMonth(e) \o <<" ">> \o getDate(e) \o <<", ">> \o getFullYear(s)
             ELSE shortMonth(s) \o <<" ">> \o getDate(s) \o <<EnDash>> \o getDate(e)
                  \o <<", ">> \o getFullYear(s)
    ELSE IF label = "Monthly" THEN monthYear(s)
    ELSE formatDate(s) \o <<" - ">> \o formatDate(e)

formatPeriodText(s, e, label) ==
    IF label = "Weekly"
      THEN IF monthsDiffer(s, e)
             THEN shortMonth(s) \o <<" ">> \o getDate(s) \o <<" - ">>
                  \o shortMonth(e) \o <<" ">> \o getDate(e) \o <<", ">> \o getFullYear(e)
             ELSE shortMonth(s) \o <<" ">> \o getDate(s) \o <<EnDash>> \o getDate(e)
                  \o <<", ">> \o getFullYear(s)
    ELSE IF label = "Monthly" THEN monthYear(s)
    ELSE formatDate(s) \o <<" - ">> \o formatDate(e)

\* the header is about to print the period line
InitPeriod ==
    /\ LayoutIdle
    /\ FieldIdle
    /\ HandlerIdle
    /\ DashboardIdle
    /\ periodIn \in [startDate : DateValues, endDate : DateValues, rangeLabel : RangeLabels]
    /\ periodOut = <<>>

\* doc.text(`Period: ${formatPeriodText(startDate, endDate, rangeLabel)}`, ...)
FormatPeriod ==
    /\ periodOut = <<>>
    /\ periodOut' = <<"Period: ">> \o formatPeriodText(periodIn.startDate, periodIn.endDate,
                                                       rangeLabel(periodIn.rangeLabel))
    /\ UNCHANGED <<layout, dashboard, fieldIn, fieldOut, handler, periodIn>>

NextPeriod == FormatPeriod

SpecPeriod == InitPeriod /\ [][NextPeriod]_vars


\* ===================================================== ReportsController
\* getSalesReport: the handler that builds the sales the report page passes
\* to generateSalesReportPDF.  The sales table is kept newest first, which is
\* the order of ORDER BY s.created_at DESC.
DbItem(name, q, r, price) ==
    [product_name |-> name, brand |-> "Bosch", quantity |-> q, returned_quantity |-> r,
     price |-> price, subtotal |-> Times(OrZero(q), OrZero(price))]

\* rows of sale_items; NULL columns are Undefined
DbItems ==
    { DbItem(T("Brake Pad", 9), N(2), N(0), N(50000)),
      DbItem(T("Oil Filter", 10), N(2), N(1), N(25050)),
      DbItem(T("Spark Plug", 10), N(2), N(2), N(19900)),
      DbItem(T("Fan Belt", 8), N(1), N(2), N(1000)),
      DbItem(NoText, N(3), Undefined, N(1000)) }

DbStatuses == {"Completed", "Partially Returned", NULL, "Returned"}
PaymentStatuses == {"Paid", "Refunded"}

DbSale(id, st, pay, its) ==
    [id |-> id, total |-> N(10000 * id), status |-> st, payment_status |-> pay, sale_items |-> its]

\* one sale with any short item list, or up to MaxSales sales of one item each
SaleTables ==
    { <<>> }
    \cup { << DbSale(1, st, pay, its) >> :
             st \in DbStatuses, pay \in PaymentStatuses, its \in SeqsUpTo(DbItems, MaxItems) }
    \cup { [i \in 1..n |-> DbSale(i, st, "Paid", <<it>>)] :
             n \in 2..MaxSales, st \in DbStatuses, it \in DbItems }

Requests == [page : {1, 2}, limit : {2, 10}]

\* WHERE (status = 'Completed' OR status = 'Partially Returned' OR status IS NULL)
\*   AND (payment_status != 'Refunded' OR payment_status IS NULL)
Matching(table) ==
    SelectSeq(table, LAMBDA s : /\ s.status \in {"Completed", "Partially Returned", NULL}
                                /\ s.payment_status # "Refunded")

Min(a, b) == IF a <= b THEN a ELSE b

\* const offset = (page - 1) * limit
offset(q) == (q.page - 1) * q.limit

\* Math.ceil(total / limit)
totalPages(n, limit) == (n + limit - 1) \div limit

\* the callback that keeps the gross quantity and price of every item
mapItem_gross(item) ==
    << [productName |-> IF Falsy(item.product_name) THEN NA ELSE item.product_name,
        brand |-> item.brand,
        quantity |-> OrZero(item.quantity),
        unitPrice |-> OrZero(item.price),
        totalPrice |-> N(OrZero(item.price).v * OrZero(item.quantity).v)] >>

\* the map callback of items.map(...): the mapped item, or nothing where the
\* callback returns null for a fully returned item
mapItem(item) ==
    LET returnedQty == OrZero(item.returned_quantity).v
        actualQty == OrZero(item.quantity).v - returnedQty
        actualPrice == OrZero(item.price).v * actualQty
    IN IF actualQty <= 0 THEN <<>>
       ELSE << [productName |-> IF Falsy(item.product_name) THEN NA ELSE item.product_name,
                brand |-> item.brand,
                quantity |-> N(actualQty),
                unitPrice |-> OrZero(item.price),
                totalPrice |-> N(actualPrice)] >>

\* items.map(...).filter(item => item !== null)
RECURSIVE saleItems(_)
saleItems(items) ==
    IF items = <<>> THEN <<>>
    ELSE mapItem(Head(items)) \o saleItems(Tail(items))

\* items.reduce((sum, item) => sum + parseFloat(item.subtotal || 0), 0)
calculatedTotal(items) ==
    SumOver([i \in 1..Len(items) |-> Number0(items[i].subtotal)], Len(items))

\* a request arrives
InitSalesReport ==
    /\ LayoutIdle
    /\ FieldIdle
    /\ PeriodIdle
    /\ DashboardIdle
    /\ req \in Requests
    /\ db \in SaleTables
    /\ sales = <<>>
    /\ total = 0
    /\ salesWithItems = <<>>
    /\ hpc = "query"
    /\ res = NoResponse

\* const [sales] = await pool.execute(salesQuery, salesParams)
QuerySales ==
    /\ hpc = "query"
    /\ sales' = SubSeq(Matching(db), offset(req) + 1, Min(offset(req) + req.limit, Len(Matching(db))))
    /\ hpc' = "count"
    /\ UNCHANGED <<layout, period, dashboard, fieldIn, fieldOut, req, db, total, salesWithItems, res>>

\* const [totalResult] = await pool.execute(countQuery, countParams)
CountSales ==
    /\ hpc = "count"
    /\ total' = Len(Matching(db))
    /\ hpc' = "loop"
    /\ UNCHANGED <<layout, period, dashboard, fieldIn, fieldOut, req, db, sales, salesWithItems, res>>

\* one turn of the for loop: Sales.getSaleItems answered
FetchItems ==
    /\ hpc = "loop"
    /\ Len(salesWithItems) < Len(sales)
    /\ LET sale == sales[Len(salesWithItems) + 1]
           items == sale.sale_items
       IN salesWithItems' = Append(salesWithItems,
              [id |-> sale.id,
               totalAmount |-> sale.total,
               status |-> IF sale.status = NULL THEN "N/A" ELSE sale.status,
               itemCount |-> Len(items),
               calculatedTotal |-> calculatedTotal(items),
               items |-> saleItems(items)])
    /\ UNCHANGED <<layout, period, dashboard, fieldIn, fieldOut, req, db, sales, total, hpc, res>>

\* the loop has no try of its own: the throw reaches the handler's catch block
FetchItemsFailed_rethrow ==
    /\ hpc = "loop"
    /\ Len(salesWithItems) < Len(sales)
    /\ res' = [status |-> 500, success |-> FALSE, message |-> "Failed to fetch sales report"]
    /\ hpc' = "sent"
    /\ UNCHANGED <<layout, period, dashboard, fieldIn, fieldOut, req, db, sales, total, salesWithItems>>

\* one turn of the for loop: Sales.getSaleItems threw
FetchItemsFailed ==
    /\ hpc = "loop"
    /\ Len(salesWithItems) < Len(sales)
    /\ LET sale == sales[Len(salesWithItems) + 1]
       IN salesWithItems' = Append(salesWithItems,
              [id |-> sale.id,
               totalAmount |-> sale.total,
               status |-> IF sale.status = NULL THEN "N/A" ELSE sale.status,
               itemCount |-> 0,
               calculatedTotal |-> 0,
               items |-> <<>>])
    /\ UNCHANGED <<layout, period, dashboard, fieldIn, fieldOut, req, db, sales, total, hpc, res>>

\* summary, pagination, res.json({ success: true, ... })
Respond ==
    /\ hpc = "loop"
    /\ Len(salesWithItems) = Len(sales)
    /\ LET n == Len(salesWithItems)
           revenue == SumOver([i \in 1..n |-> Number0(salesWithItems[i].totalAmount)], n)
       IN res' = [status |-> 200,
                  success |-> TRUE,
                  sales |-> salesWithItems,
                  pagination |-> [current_page |-> req.page,
                                  per_page |-> req.limit,
                                  total |-> total,
                                  total_pages |-> totalPages(total, req.limit),
                                  from |-> offset(req) + 1,
                                  to |-> Min(offset(req) + req.limit, total)],
                  summary |-> [totalSales |-> total,
                               totalRevenue |-> revenue,
                               averageSale |-> IF n > 0 THEN <<revenue, n>> ELSE <<0, 1>>,
                               totalItems |-> SumOver([i \in 1..n |-> Len(salesWithItems[i].items)], n)]]
    /\ hpc' = "sent"
    /\ UNCHANGED <<layout, period, dashboard, fieldIn, fieldOut, req, db, sales, total, salesWithItems>>

\* either query rejects: res.status(500).json({ success: false, ... })
QueryFailed ==
    /\ hpc \in {"query", "count"}
    /\ res' = [status |-> 500, success |-> FALSE, message |-> "Failed to fetch sales report"]
    /\ hpc' = "sent"
    /\ UNCHANGED <<layout, period, dashboard, fieldIn, fieldOut, req, db, sales, total, salesWithItems>>

NextSalesReport ==
    \/ QuerySales
    \/ CountSales
    \/ FetchItems
    \/ FetchItemsFailed
    \/ Respond
    \/ QueryFailed

SpecSalesReport == InitSalesReport /\ [][NextSalesReport]_vars

\* ---- the sales table changing under a request
\* Other requests write the sales table while getSalesReport is between two
\* of its awaits: the handler opens no transaction, each pool.execute and each
\* Sales.getSaleItems call sees the table as it is at that moment.

\* a sale is recorded: the newest row of the table, and a matching one
SaleInserted ==
    /\ hpc \in {"count", "loop"}
    /\ Len(db) < MaxSales
    /\ db' = << DbSale(Len(db) + 1, "Completed", "Paid", <<>>) >> \o db
    /\ UNCHANGED <<layout, period, dashboard, fieldIn, fieldOut, req, sales, total, salesWithItems, hpc, res>>

\* a matching sale is refunded: payment_status = 'Refunded'
SaleRefunded(i) ==
    /\ hpc \in {"count", "loop"}
    /\ i \in 1..Len(db)
    /\ db[i].payment_status # "Refunded"
    /\ db' = [db EXCEPT ![i].payment_status = "Refunded"]
    /\ UNCHANGED <<layout, period, dashboard, fieldIn, fieldOut, req, sales, total, salesWithItems, hpc, res>>

NextSalesReportBusy ==
    \/ NextSalesReport
    \/ SaleInserted
    \/ \E i \in 1..MaxSales : SaleRefunded(i)

SpecSalesReportBusy == InitSalesReport /\ [][NextSalesReportBusy]_vars


\* ===================================================== DashboardSections
\* The component once mounted: fetchAllData awaits Promise.all of four
\* requests, and an effect calls getDailySales whenever salesPeriod changes.
\* Nothing cancels a call or tells a late response from a current one.
SectionNames == {"lowStock", "fastMoving", "slowMoving", "salesByCategory"}
SalesPeriods == {"week", "month", "year"}

Rows(v) == [k |-> "list", v |-> v]
NoRows == [k |-> "undefined", v |-> <<>>]

\* data || []
OrEmpty(d) == IF d.k = "list" THEN d.v ELSE <<>>

Pending == [state |-> "pending", success |-> FALSE, data |-> NoRows]
Rejected == [state |-> "rejected", success |-> FALSE, data |-> NoRows]
Fulfilled(ok, d) == [state |-> "fulfilled", success |-> ok, data |-> d]

\* what a section request can settle with
SectionOutcomes == { Rejected, Fulfilled(FALSE, NoRows), Fulfilled(TRUE, Rows(<<"item">>)) }

\* the rows the backend answers for a period
DailySales(p) ==
    CASE p = "week" -> << [date |-> Date(2025, 1, 6), total |-> 1000],
                          [date |-> Date(2025, 1, 7), total |-> 2500] >>
      [] p = "month" -> << [date |-> Date(2024, 12, 30), total |-> 500] >>
      [] p = "year" -> << [date |-> Date(2025, 1, 1), total |-> 90000] >>

\* what a getDailySales call can settle with: success with rows, success
\* without data, success: false, or a rejection
SalesOutcomes == {"rows", "noData", "refused", "rejected"}

\* formatDate(dateString, period) of the component: 'Nov' for a year, 'Nov 16' otherwise
formatChartDate(dt, p) ==
    IF p = "year" THEN <<ShortMonths[dt.m]>>
    ELSE <<ShortMonths[dt.m], " ">> \o Decimal(dt.d)

\* the object handed to setSalesChartData; the period is the one the effect closed over
chartData(data, p) ==
    [labels |-> [i \in 1..Len(data) |-> formatChartDate(data[i].date, p)],
     datasets |-> << [label |-> "Total Sales (PHP)",
                      data |-> [i \in 1..Len(data) |-> data[i].total]] >>]

InFlight == { i \in 1..Len(salesReqs) : salesReqs[i].state = "pending" }

\* the component has mounted and both effects have run
InitDashboard ==
    /\ LayoutIdle
    /\ FieldIdle
    /\ PeriodIdle
    /\ HandlerIdle
    /\ loading = TRUE
    /\ sections = [n \in SectionNames |-> <<>>]
    /\ mount = [n \in SectionNames |-> Pending]
    /\ mpc = "await"
    /\ salesPeriod = "week"
    /\ salesChartData = [labels |-> <<>>, datasets |-> <<>>]
    /\ loadingSales = TRUE
    /\ salesReqs = << [period |-> "week", state |-> "pending"] >>

\* one of the four requests settles while Promise.all is awaited
SectionSettles(n, r) ==
    /\ mpc = "await"
    /\ mount[n] = Pending
    /\ \A m \in SectionNames : mount[m] # Rejected
    /\ mount' = [mount EXCEPT ![n] = r]
    /\ UNCHANGED <<layout, period, fieldIn, fieldOut, handler>>
    /\ UNCHANGED <<loading, sections, mpc, salesPeriod, salesChartData, loadingSales, salesReqs>>

\* the catch block does not end in finally: the loader stays up after a rejection
FetchAllDataResumes_noFinally ==
    /\ mpc = "await"
    /\ \/ \E n \in SectionNames : mount[n] = Rejected
       \/ \A n \in SectionNames : mount[n].state = "fulfilled"
    /\ IF \E n \in SectionNames : mount[n] = Rejected
         THEN UNCHANGED <<sections, loading>>
         ELSE /\ sections' = [n \in SectionNames |->
                                 IF mount[n].success THEN OrEmpty(mount[n].data) ELSE sections[n]]
              /\ loading' = FALSE
    /\ mpc' = "done"
    /\ UNCHANGED <<layout, period, fieldIn, fieldOut, handler>>
    /\ UNCHANGED <<mount, salesPeriod, salesChartData, loadingSales, salesReqs>>

\* Promise.all has settled: the four setters, or the catch block, then finally
FetchAllDataResumes ==
    /\ mpc = "await"
    /\ \/ \E n \in SectionNames : mount[n] = Rejected
       \/ \A n \in SectionNames : mount[n].state = "fulfilled"
    /\ IF \E n \in SectionNames : mount[n] = Rejected
         THEN UNCHANGED sections
         ELSE sections' = [n \in SectionNames |->
                              IF mount[n].success THEN OrEmpty(mount[n].data) ELSE sections[n]]
    /\ loading' = FALSE
    /\ mpc' = "done"
    /\ UNCHANGED <<layout, period, fieldIn, fieldOut, handler>>
    /\ UNCHANGED <<mount, salesPeriod, salesChartData, loadingSales, salesReqs>>

\* a period button is clicked (the buttons are rendered once loading is false);
\* the effect runs again: setLoadingSales(true) and a new getDailySales call
ChangeSalesPeriod(p) ==
    /\ mpc = "done"
    /\ ~loading
    /\ p # salesPeriod
    /\ Cardinality(InFlight) < MaxInFlight
    /\ salesPeriod' = p
    /\ loadingSales' = TRUE
    /\ salesReqs' = Append(SelectSeq(salesReqs, LAMBDA r : r.state = "pending"),
                           [period |-> p, state |-> "pending"])
    /\ UNCHANGED <<layout, period, fieldIn, fieldOut, handler>>
    /\ UNCHANGED <<loading, sections, mount, mpc, salesChartData>>

\* a getDailySales call settles and its fetchSalesData resumes; a call other
\* than the latest one is then forgotten
DailySalesSettles(i, o) ==
    /\ i \in InFlight
    /\ LET r == salesReqs[i]
       IN /\ salesChartData' =
                 IF o = "rows" THEN chartData(DailySales(r.period), r.period)
                 ELSE IF o = "noData" THEN chartData(<<>>, r.period)
                 ELSE salesChartData
          /\ loadingSales' = FALSE
          /\ salesReqs' = IF i = Len(salesReqs)
                            THEN [salesReqs EXCEPT ![i].state = o]
                            ELSE SubSeq(salesReqs, 1, i - 1) \o SubSeq(salesReqs, i + 1, Len(salesReqs))
    /\ UNCHANGED <<layout, period, fieldIn, fieldOut, handler>>
    /\ UNCHANGED <<loading, sections, mount, mpc, salesPeriod>>

NextDashboard ==
    \/ \E n \in SectionNames, r \in SectionOutcomes : SectionSettles(n, r)
    \/ FetchAllDataResumes
    \/ \E p \in SalesPeriods : ChangeSalesPeriod(p)
    \/ \E i \in 1..(MaxInFlight + 1), o \in SalesOutcomes : DailySalesSettles(i, o)

SpecDashboard == InitDashboard /\ [][NextDashboard]_vars

\* every request settles in the end, and a settled Promise.all resumes fetchAllData
DashboardFairness ==
    /\ \A n \in SectionNames : WF_vars(\E r \in SectionOutcomes : SectionSettles(n, r))
    /\ WF_vars(FetchAllDataResumes)
    /\ WF_vars(\E o \in SalesOutcomes : DailySalesSettles(1, o))

SpecDashboardFair == SpecDashboard /\ DashboardFairness


\* ============================================================== properties
CmdIdx(kind) == { i \in 1..Len(cmds) : cmds[i].kind = kind }
OnPage(p) == { i \in 1..Len(cmds) : cmds[i].page = p }
MinOf(S) == CHOOSE m \in S : \A z \in S : m <= z
RowCmds == SelectSeq(cmds, LAMBDA c : c.kind = "row")

\* ---- C1
\* C1 (as claimed): every row is drawn with cursor.y + rowHeight not beyond the
\* page-break threshold of its generator (270 for the reports, 7500 = 750pt
\* for the receipt).
C1_RowEndsWithinThreshold ==
    \A i \in CmdIdx("row") :
        cmds[i].y + cmds[i].h <= (IF gen = "receipt" THEN 7500 ELSE 270)

\* ---- C2
\* C2 (as claimed): in a finished document every page after the first begins
\* with a column-header block identical to page 1's (labels, x positions,
\* font style and size, separator offset).
C2_EveryPageBeginsWithHeader ==
    pc = "done" =>
        \A p \in 2..pages :
            LET f == cmds[MinOf(OnPage(p))]
                h == cmds[MinOf(CmdIdx("colHeader"))]
            IN /\ f.kind = "colHeader"
               /\ f.cells = h.cells
               /\ f.xs = h.xs
               /\ f.size = h.size
               /\ f.style = h.style
               /\ f.lineY - f.y = h.lineY - h.y

\* ---- C3
\* the amount printed in the total column of a row
PrintedRowTotal(c) == IF gen = "sales" THEN c.cells[5][2] ELSE c.cells[6][2]

SumOfPrintedRowTotals ==
    SumOver([i \in 1..Len(RowCmds) |-> PrintedRowTotal(RowCmds[i])], Len(RowCmds))

\* the amount printed as 'Grand Total' / 'Total Refunded Amount'
PrintedGrandTotal ==
    IF gen = "sales"
      THEN cmds[MinOf(CmdIdx("grandTotal"))].cells[2][2]
      ELSE cmds[MinOf(CmdIdx("summaryLine"))].cells[4][2]

\* C3: in a finished sales or returns report the printed grand total equals, in
\* centavos, the sum of the totals printed in the rows, and the rows printed
\* are exactly the input rows, each once and in order, whatever the page breaks.
C3_GrandTotalIsSumOfRows ==
    (pc = "done" /\ gen \in {"sales", "returns"}) =>
        /\ PrintedGrandTotal = SumOfPrintedRowTotals
        /\ Len(RowCmds) = Len(rows)
        /\ \A i \in 1..Len(RowCmds) : RowCmds[i].index = i

C3_Witness ==
    /\ pc = "done"
    /\ gen = "sales"
    /\ pages >= 3
    /\ PrintedGrandTotal > 0
    /\ \E i \in CmdIdx("row") : cmds[i].page = 2

\* ---- C4
SumOfPrintedAmounts ==
    SumOver([i \in 1..Len(RowCmds) |-> RowCmds[i].cells[4][2]], Len(RowCmds))

\* C4 (as claimed): the receipt's printed Subtotal and TOTAL equal the sum of
\* the Amount values printed in its item rows.
C4_TotalsEqualSumOfRows ==
    (pc = "done" /\ gen = "receipt") =>
        /\ cmds[MinOf(CmdIdx("subtotal"))].cells[2][2] = SumOfPrintedAmounts
        /\ cmds[MinOf(CmdIdx("total"))].cells[2][2] = SumOfPrintedAmounts

\* C4 (amended): the receipt's printed Subtotal and TOTAL both show the
\* totalAmount its caller passed, whatever the item rows add up to.
C4_TotalsAreCallerTotal ==
    (pc = "done" /\ gen = "receipt") =>
        /\ cmds[MinOf(CmdIdx("subtotal"))].cells[2] = <<"PHP", args.totalAmount.v>>
        /\ cmds[MinOf(CmdIdx("total"))].cells[2] = <<"PHP", args.totalAmount.v>>

C4_Witness ==
    /\ pc = "done"
    /\ gen = "receipt"
    /\ Len(RowCmds) >= 2
    /\ args.totalAmount.v = 175150
    /\ SumOfPrintedAmounts # 175150
    /\ cmds[MinOf(CmdIdx("total"))].cells[2][2] = 175150

\* ---- C5
QtyOf(name) ==
    SumOver([i \in 1..Len(rows) |-> IF rows[i].productName = name THEN rows[i].quantity.v ELSE 0],
            Len(rows))

\* the products tied for the highest summed quantity
TopSellers ==
    { nm \in ProductNames(rows) : \A other \in ProductNames(rows) : QtyOf(other) <= QtyOf(nm) }

FirstRowOf(name) == MinOf({ i \in 1..Len(rows) : rows[i].productName = name })

\* the best-selling product as printed in the summary
PrintedBestSeller == cmds[MinOf(CmdIdx("summaryLine")) + 1].cells[4]

\* a comes before b in Object.keys order
KeyBefore(a, b) ==
    \/ ArrayIndex(a) >= 0 /\ ArrayIndex(b) < 0
    \/ ArrayIndex(a) >= 0 /\ ArrayIndex(b) >= 0 /\ ArrayIndex(a) < ArrayIndex(b)
    \/ ArrayIndex(a) < 0 /\ ArrayIndex(b) < 0 /\ FirstRowOf(a) < FirstRowOf(b)

\* C5 (as claimed): with two or more products tied for the highest summed
\* quantity, the printed best seller is the tied product whose first row
\* comes earliest.
C5_FirstEncounteredWins ==
    (pc = "done" /\ gen = "sales" /\ Cardinality(TopSellers) >= 2) =>
        \A t \in TopSellers : FirstRowOf(PrintedBestSeller) <= FirstRowOf(t)

\* C5 (amended): with two or more products tied for the highest summed
\* quantity, the printed best seller is the tied product that comes last in
\* Object.keys order (array-index names ascending first, then the other
\* names in order of first appearance).
C5_LastKeyWins ==
    (pc = "done" /\ gen = "sales" /\ Cardinality(TopSellers) >= 2) =>
        /\ PrintedBestSeller \in TopSellers
        /\ \A t \in TopSellers \ {PrintedBestSeller} : KeyBefore(t, PrintedBestSeller)

C5_Witness ==
    /\ pc = "done"
    /\ gen = "sales"
    /\ Cardinality(TopSellers) >= 2
    /\ \E t \in TopSellers : FirstRowOf(t) < FirstRowOf(PrintedBestSeller)

\* ---- C6
SummaryLine(k) == cmds[MinOf(CmdIdx("summaryHead")) + k].cells

\* header, column header, summary heading, one page, one footer 'Page 1 of 1'
OnePageSkeleton ==
    /\ Cardinality(CmdIdx("title")) = 1
    /\ Cardinality(CmdIdx("period")) = 1
    /\ Cardinality(CmdIdx("colHeader")) = 1
    /\ Cardinality(CmdIdx("summaryHead")) = 1
    /\ pages = 1
    /\ \A i \in 1..Len(cmds) : cmds[i].page = 1
    /\ Cardinality(CmdIdx("footerPage")) = 1
    /\ \A i \in CmdIdx("footerPage") : cmds[i].cells = <<"Page", 1, "of", 1>>

\* the aggregates that are computed from the rows are all zero / 'N/A'
RowAggregatesZero ==
    CASE gen = "sales" ->
           /\ PrintedGrandTotal = 0
           /\ SummaryLine(2)[2] = 0
           /\ SummaryLine(2)[4] = [s |-> "N/A", n |-> 3, ell |-> FALSE]
      [] gen = "inventory" ->
           /\ SummaryLine(1)[2] = 0
           /\ SummaryLine(2)[2] = 0
           /\ SummaryLine(3)[2] = [k |-> "num", v |-> 0]
      [] gen = "returns" ->
           /\ SummaryLine(1)[2] = 0
           /\ SummaryLine(1)[4] = <<"PHP", 0>>
           /\ SummaryLine(2)[2] = 0
           /\ SummaryLine(2)[4] = 0

IncludedOrders ==
    { i \in 1..Len(salesData) :
        salesData[i].status \in {"Completed", "Partially Returned", "Pending", "null"} }

\* C6 (as claimed): a finished report with zero rows has header, column header
\* and summary, one page with one footer 'Page 1 of 1', and every total in the
\* summary is zero (best seller 'N/A'), with or without the logo.
C6_ZeroRowsZeroTotals ==
    (pc = "done" /\ gen \in Reports /\ rows = <<>>) =>
        /\ OnePageSkeleton
        /\ RowAggregatesZero
        /\ gen = "sales" =>
              /\ SummaryLine(1)[2] = <<"PHP", 0>>
              /\ SummaryLine(1)[4] = <<"PHP", 0>>
              /\ SummaryLine(3)[2] = 0

\* C6 (amended): a finished report with zero rows has header, column header
\* and summary, one page with one footer 'Page 1 of 1', with or without the
\* logo; every aggregate computed from the rows is zero and the best seller
\* is 'N/A', while the sales report's Total Transactions counts the orders
\* with an allowed status and its Total Revenue is zero when there is none.
C6_ZeroRowsOnePage ==
    (pc = "done" /\ gen \in Reports /\ rows = <<>>) =>
        /\ OnePageSkeleton
        /\ RowAggregatesZero
        /\ gen = "sales" =>
              /\ SummaryLine(3)[2] = Cardinality(IncludedOrders)
              /\ IncludedOrders = {} =>
                    SummaryLine(1)[2] = <<"PHP", 0>> /\ SummaryLine(1)[4] = <<"PHP", 0>>

C6_Witness ==
    /\ pc = "done"
    /\ gen = "sales"
    /\ rows = <<>>
    /\ logoDataUrl = "null"
    /\ IncludedOrders # {}
    /\ SummaryLine(1)[2] # <<"PHP", 0>>
    /\ Cardinality(CmdIdx("footerPage")) = 1

\* ---- C7
FooterKinds == {"footerUser", "footerDate", "footerPage"}

\* C7: in a finished report every page 1..N of the document carries exactly
\* one footer (user, date, 'Page i of N' with i the page's index and N the
\* final page count), every page holds laid-out content, and no footer is
\* stamped anywhere else.
C7_EveryPageStampedOnce ==
    (pc = "done" /\ gen \in Reports) =>
        /\ \A p \in 1..pages :
              /\ \A k \in FooterKinds :
                    Cardinality({ i \in CmdIdx(k) : cmds[i].page = p }) = 1
              /\ \A i \in CmdIdx("footerPage") :
                    cmds[i].page = p => cmds[i].cells = <<"Page", p, "of", pages>>
              /\ \E i \in OnPage(p) : cmds[i].kind \notin FooterKinds
        /\ \A i \in 1..Len(cmds) : cmds[i].page \in 1..pages

C7_Witness ==
    /\ pc = "done"
    /\ gen \in Reports
    /\ pages >= 3
    /\ Cardinality(CmdIdx("footerPage")) = pages

\* ---- C8
\* C8 (as claimed): y never decreases while the page count is unchanged, and
\* every new page resets y to the document's one top margin (20 in the
\* reports, 400 = 40pt in the receipt).
C8_OneTopMargin ==
    [][ /\ pages' = pages => y' >= y
        /\ pages' # pages => y' = (IF gen = "receipt" THEN 400 ELSE 20) ]_vars

\* C8 (amended): y never decreases while the page count is unchanged, and a
\* new page resets y to a value fixed by the check that started it: 20 for
\* the row and grand-total checks of the reports, 30 for the summary check,
\* 400 (40pt) for the row check of the receipt.
C8_TopMarginPerCheck ==
    [][ /\ pages' = pages => y' >= y
        /\ pages' # pages =>
              /\ pages' = pages + 1
              /\ y' = (IF pc = "summary" THEN 30 ELSE IF gen = "receipt" THEN 400 ELSE 20) ]_vars

C8_Witness ==
    /\ pc = "summaryDraw"
    /\ y = 30
    /\ pages = 3
    /\ \E i \in CmdIdx("colHeader") : cmds[i].page = 2 /\ cmds[i].y = 20

\* ---- C9
ClosingKinds == {"closingLine", "grandTotal", "summaryHead", "summaryLine"}

\* C9: no closing separator line, grand-total line or summary line of a report
\* is placed at or below the footer position y = 285 of its page.
C9_ClosingBlockAboveFooter ==
    gen \in Reports =>
        \A i \in 1..Len(cmds) : cmds[i].kind \in ClosingKinds => cmds[i].y < 285

C9_Witness ==
    /\ pc = "done"
    /\ gen \in Reports
    /\ pages >= 2
    /\ \E i \in CmdIdx("summaryHead") : cmds[i].page = pages /\ cmds[i].y = 30
    /\ \E i \in CmdIdx("closingLine") : cmds[i].page = pages - 1 /\ cmds[i].y > 270

\* ---- C10
\* C10: in a finished sales report the best seller printed is 'N/A' when the
\* row set is empty, and otherwise is the name of a product present in the rows.
C10_BestSellerDefault ==
    (pc = "done" /\ gen = "sales") =>
        IF rows = <<>>
          THEN PrintedBestSeller = [s |-> "N/A", n |-> 3, ell |-> FALSE]
          ELSE \E i \in 1..Len(rows) : rows[i].productName = PrintedBestSeller

C10_Witness ==
    /\ pc = "done"
    /\ gen = "sales"
    /\ rows = <<>>
    /\ \E i \in 1..Len(salesData) : salesData[i].items # <<>>
    /\ PrintedBestSeller = [s |-> "N/A", n |-> 3, ell |-> FALSE]

\* ---- C11
LimitedFields ==
    { "sales.productName", "inventory.productName", "returns.customer_name", "returns.return_reason" }

\* the field has been rendered from a string value
RenderedString == fieldOut.k = "text" /\ fieldIn.value.k = "str"

\* C11 (as claimed): a rendered value longer than its field's limit L (30, 35,
\* 20, 15) is its first L characters followed by '...', and a value of length
\* <= L is rendered unchanged.
C11_TruncatedOrUnchanged ==
    (RenderedString /\ fieldIn.field \in LimitedFields) =>
        LET L == CASE fieldIn.field = "sales.productName" -> 30
                   [] fieldIn.field = "inventory.productName" -> 35
                   [] fieldIn.field = "returns.customer_name" -> 20
                   [] fieldIn.field = "returns.return_reason" -> 15
            in == fieldIn.value.s
            out == fieldOut.s
        IN IF Len(in) > L
             THEN /\ Len(out) = L + 3
                  /\ \A i \in 1..L : out[i] = in[i]
                  /\ \A i \in (L + 1)..(L + 3) : out[i] = "."
             ELSE out = in

\* C11 (amended): a rendered value longer than its field's limit L is its first
\* L characters followed by '...'; a non-empty value of length <= L is
\* rendered unchanged; an empty product name is rendered empty, an empty
\* customer name or return reason is rendered 'N/A'.
C11_TruncatedOrUnchangedOrNA ==
    (RenderedString /\ fieldIn.field \in LimitedFields) =>
        LET L == CASE fieldIn.field = "sales.productName" -> 30
                   [] fieldIn.field = "inventory.productName" -> 35
                   [] fieldIn.field = "returns.customer_name" -> 20
                   [] fieldIn.field = "returns.return_reason" -> 15
            in == fieldIn.value.s
            out == fieldOut.s
        IN IF Len(in) > L
             THEN /\ Len(out) = L + 3
                  /\ \A i \in 1..L : out[i] = in[i]
                  /\ \A i \in (L + 1)..(L + 3) : out[i] = "."
             ELSE IF in = <<>> /\ fieldIn.field \in {"returns.customer_name", "returns.return_reason"}
                    THEN out = <<"N", "/", "A">>
                    ELSE out = in

\* the scenario: a product name of 40 characters in the sales report
C11_Witness ==
    /\ fieldIn.field = "sales.productName"
    /\ Len(fieldIn.value.s) = 40
    /\ Len(fieldOut.s) = 33
    /\ fieldOut.s[30] = fieldIn.value.s[30]
    /\ fieldOut.s[31] = "."

\* ---- C14
OptionalFields ==
    { "returns.customer_name", "returns.return_reason", "receipt.customerName", "receipt.address" }

\* the optional field is '' or undefined and has been rendered
MissingRendered ==
    /\ fieldOut.k = "text"
    /\ fieldIn.field \in OptionalFields
    /\ fieldIn.value.k = "undefined" \/ fieldIn.value.s = <<>>

\* C14 (as claimed): an empty or undefined optional field is never rendered
\* blank: customer name and return reason render 'N/A', the receipt address
\* renders 'In-Store Pickup'.
C14_FallbackLiteral ==
    MissingRendered =>
        /\ fieldOut.s # <<>>
        /\ fieldOut.s = IF fieldIn.field = "receipt.address"
                          THEN <<"I", "n", "-", "S", "t", "o", "r", "e", " ", "P", "i", "c", "k", "u", "p">>
                          ELSE <<"N", "/", "A">>

\* C14 (amended): an empty or undefined optional field is never rendered
\* blank: customer name and return reason render 'N/A'; the receipt address
\* renders 'In-Store Pickup' when the shipping option is 'In-Store Pickup'
\* (its default) and 'N/A' for any other shipping option.
C14_FallbackByShipping ==
    MissingRendered =>
        /\ fieldOut.s # <<>>
        /\ fieldOut.s = IF /\ fieldIn.field = "receipt.address"
                           /\ fieldIn.shippingOption \in {"undefined", "In-Store Pickup"}
                          THEN <<"I", "n", "-", "S", "t", "o", "r", "e", " ", "P", "i", "c", "k", "u", "p">>
                          ELSE <<"N", "/", "A">>

C14_Witness ==
    /\ MissingRendered
    /\ fieldIn.field = "receipt.address"
    /\ fieldIn.shippingOption = "Delivery"
    /\ fieldOut.s = <<"N", "/", "A">>

\* ---- C12
\* a successful response has been sent
Answered == hpc = "sent" /\ res.status = 200

\* the sale_items of the sale with this id
ItemsInDb(id) == db[MinOf({ i \in 1..Len(db) : db[i].id = id })].sale_items

\* quantity minus returned_quantity, NULL counting as 0
NetQuantity(item) ==
    (IF item.quantity.k = "num" THEN item.quantity.v ELSE 0)
    - (IF item.returned_quantity.k = "num" THEN item.returned_quantity.v ELSE 0)

\* C12: in a successful getSalesReport response every sale whose items were
\* fetched carries exactly its line items of positive net quantity (quantity
\* minus returned_quantity), in order, each with quantity = net quantity > 0 and totalPrice = unitPrice x
\* net quantity; so every row generateSalesReportPDF lays out for the response
\* has a positive quantity and the quantity sum counts no returned unit.
C12_ReturnedItemsDropped ==
    Answered =>
        /\ \A i \in 1..Len(res.sales) :
              LET kept == SelectSeq(ItemsInDb(res.sales[i].id), LAMBDA it : NetQuantity(it) > 0)
                  out == res.sales[i].items
              IN IF res.sales[i].itemCount = 0
                   THEN out = <<>>
                   ELSE /\ Len(out) = Len(kept)
                        /\ \A j \in 1..Len(out) :
                              /\ out[j].quantity.v = NetQuantity(kept[j])
                              /\ out[j].quantity.v > 0
                              /\ out[j].totalPrice.v = out[j].unitPrice.v * NetQuantity(kept[j])
        /\ LET pdfRows == flattenedData(res.sales)
           IN /\ \A j \in 1..Len(pdfRows) :
                    /\ pdfRows[j].quantity.v > 0
                    /\ pdfRows[j].totalPrice.v = pdfRows[j].unitPrice.v * pdfRows[j].quantity.v
              /\ totalItems(pdfRows) <=
                    SumOver([i \in 1..Len(res.sales) |->
                               SumOver([j \in 1..Len(ItemsInDb(res.sales[i].id)) |->
                                          Max(NetQuantity(ItemsInDb(res.sales[i].id)[j]), 0)],
                                       Len(ItemsInDb(res.sales[i].id)))],
                            Len(res.sales))

\* a sale with a fully returned item and a partly returned one
C12_Witness ==
    /\ Answered
    /\ Len(res.sales) = 1
    /\ Len(ItemsInDb(res.sales[1].id)) = 2
    /\ NetQuantity(ItemsInDb(res.sales[1].id)[1]) <= 0
    /\ Len(res.sales[1].items) = 1
    /\ res.sales[1].items[1].quantity.v = 1
    /\ Len(flattenedData(res.sales)) = 1

\* ---- C13
\* C13 (as claimed): when the logo load has failed (null), the finished
\* document of every generator has no image and still has its title, its
\* table (column headers and one row per input row) and, in the reports, the
\* period line, the summary and one footer per page.
C13_LogoFailureKeepsContent ==
    (pc = "done" /\ logoDataUrl = "null") =>
        /\ CmdIdx("image") = {}
        /\ CmdIdx("title") # {}
        /\ CmdIdx("colHeader") # {}
        /\ Len(RowCmds) = Len(rows)
        /\ gen # "receipt" =>
              /\ Cardinality(CmdIdx("period")) = 1
              /\ Cardinality(CmdIdx("summaryHead")) = 1
              /\ Cardinality(CmdIdx("footerPage")) = pages

\* ---- C15
\* what the summary prints
PrintedRevenue == SummaryLine(1)[2][2]
PrintedAverage == SummaryLine(1)[4][2]
PrintedTransactions == SummaryLine(3)[2]

\* a is total / n to the nearest centavo
NearestQuotient(a, tot, n) == 2 * (a * n - tot) <= n /\ 2 * (tot - a * n) <= n

\* C15 (as claimed): in a finished sales report the transaction count is the
\* number of orders with an included status, and the average transaction
\* value is the printed grand total divided by that count (0 when it is 0).
C15_AverageOfGrandTotal ==
    (pc = "done" /\ gen = "sales") =>
        /\ PrintedTransactions = Cardinality(IncludedOrders)
        /\ IF PrintedTransactions = 0
             THEN PrintedAverage = 0
             ELSE NearestQuotient(PrintedAverage, PrintedGrandTotal, PrintedTransactions)

\* C15 (amended): in a finished sales report the transaction count is the
\* number of orders with an included status, Total Revenue is the sum of
\* those orders' totalAmount, and the average transaction value is Total
\* Revenue divided by the count (0 when it is 0); it is the grand total
\* divided by the count whenever the grand total equals Total Revenue.
C15_AverageOfRevenue ==
    (pc = "done" /\ gen = "sales") =>
        /\ PrintedTransactions = Cardinality(IncludedOrders)
        /\ PrintedRevenue =
              SumOver([i \in 1..Len(salesData) |->
                         IF i \in IncludedOrders /\ salesData[i].totalAmount.k = "num"
                           THEN salesData[i].totalAmount.v ELSE 0],
                      Len(salesData))
        /\ IF PrintedTransactions = 0
             THEN PrintedAverage = 0
             ELSE NearestQuotient(PrintedAverage, PrintedRevenue, PrintedTransactions)
        /\ (PrintedGrandTotal = PrintedRevenue /\ PrintedTransactions > 0) =>
              NearestQuotient(PrintedAverage, PrintedGrandTotal, PrintedTransactions)

\* the scenario: totals 100.00 and 250.50 give 'PHP 350.50', 2 and 'PHP 175.25'
C15_Witness ==
    /\ pc = "done"
    /\ gen = "sales"
    /\ Len(salesData) = 2
    /\ Len(rows) = 2
    /\ PrintedGrandTotal = 35050
    /\ PrintedTransactions = 2
    /\ PrintedAverage = 17525

\* ---- C16
\* C16 (as claimed): no generation raises, whatever the rows hold; a row whose
\* numeric field is absent or not a number is drawn with 0 in its place
\* (receipt quantity, inventory stock, returns refund, sales quantity), and
\* the totals printed at the end are numbers.
C16_CoercedNeverRejected ==
    /\ pc # "raised"
    /\ \A i \in CmdIdx("row") :
          LET c == cmds[i]
              it == rows[c.index]
          IN CASE gen = "receipt" ->
                    c.cells[2].k = "num" /\ (it.quantity.k # "num" => c.cells[2].v = 0)
               [] gen = "inventory" ->
                    c.cells[4].k = "num" /\ (it.currentStock.k # "num" => c.cells[4].v = 0)
               [] gen = "returns" ->
                    it.refund_amount.k # "num" => c.cells[6] = <<"PHP", 0>>
               [] gen = "sales" ->
                    it.quantity.k = "num" /\ it.unitPrice.k = "num" /\ it.totalPrice.k = "num"
    /\ (pc = "done" /\ gen = "inventory") => SummaryLine(3)[2].k = "num"

\* ---- C20
\* C20: in the receipt, in tenths of a point, every item row has height
\* max(250, nameLines x 120 + serialLines x 96 + 100) with serialLines 0 for an
\* item without serial numbers, so at least 250; the cursor stands at the
\* row's y plus that height once the row is drawn, and the next row starts
\* exactly there when it is on the same page (at the top margin 400 otherwise).
C20_ReceiptRowHeight ==
    gen = "receipt" =>
        LET rc == RowCmds
        IN \A k \in 1..Len(rc) :
              LET c == rc[k]
                  it == rows[c.index]
                  lines == it.nameLines * 120 + (IF it.serials = 0 THEN 0 ELSE it.serialLines * 96) + 100
              IN /\ c.index = k
                 /\ c.h = (IF lines > 250 THEN lines ELSE 250)
                 /\ c.h >= 250
                 /\ (k = Len(rc) /\ pc = "rows") => y = c.y + c.h
                 /\ k < Len(rc) =>
                       IF rc[k + 1].page = c.page
                         THEN rc[k + 1].y = c.y + c.h
                         ELSE rc[k + 1].y = 400

\* a row of the minimum height followed on the same page by a taller one
C20_Witness ==
    /\ gen = "receipt"
    /\ pc = "done"
    /\ Len(RowCmds) >= 2
    /\ RowCmds[1].h = 250
    /\ RowCmds[2].h > 250
    /\ RowCmds[2].page = RowCmds[1].page
    /\ RowCmds[2].y = RowCmds[1].y + 250

\* ---- C17
\* the page of each row drawn, in row order
RowPagesOf(cs) ==
    LET rc == SelectSeq(cs, LAMBDA c : c.kind = "row")
    IN [i \in 1..Len(rc) |-> rc[i].page]

\* both overlapping calls have returned their document
BothDone == pc = "done" /\ parked.pc = "done"

\* C17 (as claimed): two finished generations of the same report over the same
\* row sequence place every row on the same page and have the same page
\* count, whether or not the logo loaded in either.
C17_SamePagesWhateverLogo ==
    (BothDone /\ gen = parked.gen /\ rows = parked.rows) =>
        /\ RowPagesOf(cmds) = RowPagesOf(parked.cmds)
        /\ pages = parked.pages

\* C17 (amended): two finished generations of the same report over the same
\* row sequence, with the same arguments and the same logo outcome, place
\* every row on the same page and have the same page count; and a page is
\* added only by a step whose height check has just succeeded: the row check
\* (y > 270, receipt y > 7500), the grand-total check (y > 265) or the summary
\* check (y + 35 > 280, inventory y + 30 > 280).
C17_SamePagesGivenLogo ==
    /\ [] ( (/\ BothDone
             /\ gen = parked.gen
             /\ rows = parked.rows
             /\ args = parked.args
             /\ logoDataUrl = parked.logoDataUrl) =>
               /\ RowPagesOf(cmds) = RowPagesOf(parked.cmds)
               /\ pages = parked.pages )
    /\ [][ (running' = running /\ pages' # pages) =>
              /\ pages' = pages + 1
              /\ \/ pc = "rows" /\ idx <= Len(rows) /\ y > (IF gen = "receipt" THEN 7500 ELSE 270)
                 \/ pc = "rows" /\ idx > Len(rows) /\ gen = "sales" /\ y > 265
                 \/ pc = "summary" /\ y + (IF gen = "inventory" THEN 30 ELSE 35) > 280 ]_vars

\* the same rows and the same logo outcome, laid out over several pages
C17_Witness ==
    /\ BothDone
    /\ rows = parked.rows
    /\ logoDataUrl = parked.logoDataUrl
    /\ pages >= 2
    /\ \E i \in 1..Len(RowPagesOf(cmds)) : RowPagesOf(cmds)[i] = 2

\* ---- C18
\* the rows drawn in cs are the rows rs of generator g, each once and in order
OwnRows(g, cs, rs) ==
    LET rc == SelectSeq(cs, LAMBDA c : c.kind = "row")
    IN /\ Len(rc) = Len(rs)
       /\ \A i \in 1..Len(rc) : rc[i].index = i /\ rc[i].cells = RowCells(g, rs[i])

\* C18: when two overlapping calls have both returned, in whatever order the
\* thread ran them, each document holds exactly the rows its own call was
\* given, and two calls given the same arguments whose logo load ended the
\* same way return identical documents (commands, page count, final cursor
\* and running total): the call that ran second is not affected by the first.
C18_CallsDoNotInterfere ==
    BothDone =>
        /\ OwnRows(gen, cmds, rows)
        /\ OwnRows(parked.gen, parked.cmds, parked.rows)
        /\ (/\ gen = parked.gen
            /\ salesData = parked.salesData
            /\ rows = parked.rows
            /\ args = parked.args
            /\ logoDataUrl = parked.logoDataUrl) =>
              /\ cmds = parked.cmds
              /\ pages = parked.pages
              /\ y = parked.y
              /\ grandTotal = parked.grandTotal

\* the call started second returned first; both documents run over pages
C18_Witness ==
    /\ BothDone
    /\ running = 1
    /\ rows = parked.rows
    /\ Len(rows) > 0
    /\ logoDataUrl = parked.logoDataUrl
    /\ pages >= 2
    /\ cmds = parked.cmds

\* ---- C19
\* a call's suspensions, seen from its variables
SuspendedOnceBeforeDrawing(callPc, callCmds, callAwaits) ==
    /\ callPc = "await" => callCmds = <<>> /\ callAwaits = 0
    /\ callPc # "await" => callAwaits = 1

\* C19: a call that stands at its await has drawn nothing and has not yet
\* resumed from any await; a call past it has resumed exactly once; and the
\* thread passes to the other call only while this one stands at that await
\* with nothing drawn, or after it has returned (or raised): between its
\* first draw command and its return no other call runs.
C19_SuspendsOnceBeforeDrawing ==
    /\ [] ( /\ SuspendedOnceBeforeDrawing(pc, cmds, awaits)
            /\ SuspendedOnceBeforeDrawing(parked.pc, parked.cmds, parked.awaits) )
    /\ [][ running' # running =>
              \/ pc = "await" /\ cmds = <<>>
              \/ pc \in {"done", "raised"} ]_vars

\* one call has drawn and returned while the other is still suspended
C19_Witness ==
    /\ pc = "done"
    /\ awaits = 1
    /\ cmds # <<>>
    /\ parked.pc = "await"
    /\ parked.cmds = <<>>

\* ---- C21
\* the period text printed for the input at hand
PeriodStart == periodIn.startDate
PeriodEnd == periodIn.endDate
PeriodLabel == IF periodIn.rangeLabel = UNDEF THEN "Daily" ELSE periodIn.rangeLabel
PeriodPrinted == periodOut # <<>>

\* days since the last day of 2023, for dates of 2024 to 2027
DayNumber(dt) ==
    (dt.y - 2024) * 365 + (IF dt.y > 2024 THEN 1 ELSE 0)
    + <<0, 31, 59, 90, 120, 151, 181, 212, 243, 273, 304, 334>>[dt.m]
    + (IF dt.y = 2024 /\ dt.m > 2 THEN 1 ELSE 0) + dt.d

\* a range of one week: the end is the start or one of the six days after it
WeekRange(s, e) ==
    /\ ~Invalid(s) /\ ~Invalid(e)
    /\ DayNumber(e) - DayNumber(s) \in 0..6

SameCalendarMonth(s, e) == s.y = e.y /\ s.m = e.m

\* the four formats, written out for a start and an end
TextOf(dt, n) == IF Invalid(dt) THEN <<"NaN">> ELSE Decimal(n)
BothMonths(s, e) ==
    <<"Period: ">> \o shortMonth(s) \o <<" ">> \o TextOf(s, s.d) \o <<" - ">>
    \o shortMonth(e) \o <<" ">> \o TextOf(e, e.d) \o <<", ">> \o TextOf(e, e.y)
OneMonth(s, e) ==
    <<"Period: ">> \o shortMonth(s) \o <<" ">> \o TextOf(s, s.d) \o <<"[U+2013]">>
    \o TextOf(e, e.d) \o <<", ">> \o TextOf(s, s.y)
MonthAndYear(s) ==
    <<"Period: ">> \o (IF Invalid(s) THEN <<"Invalid Date">>
                       ELSE <<LongMonths[s.m], " ">> \o Decimal(s.y))
LongDate(dt) ==
    IF Invalid(dt) THEN <<"N/A">>
    ELSE <<LongMonths[dt.m], " ">> \o Decimal(dt.d) \o <<", ">> \o Decimal(dt.y)
BothDates(s, e) == <<"Period: ">> \o LongDate(s) \o <<" - ">> \o LongDate(e)

PeriodFormats == {"bothMonths", "oneMonth", "monthAndYear", "bothDates"}
InFormat(f) ==
    CASE f = "bothMonths" -> periodOut = BothMonths(PeriodStart, PeriodEnd)
      [] f = "oneMonth" -> periodOut = OneMonth(PeriodStart, PeriodEnd)
      [] f = "monthAndYear" -> periodOut = MonthAndYear(PeriodStart)
      [] f = "bothDates" -> periodOut = BothDates(PeriodStart, PeriodEnd)

\* C21: a Weekly range of one week is printed 'Mon D - Mon D, Year' with the
\* end date's year when its two dates lie in different calendar months and
\* 'Mon D[U+2013]D, Year' when they lie in the same one; a Monthly range is
\* printed as the start date's 'Month Year'; a Daily range as
\* 'formatDate(start) - formatDate(end)'; and whatever the label and the
\* dates, the text is in exactly one of the four formats, one of the two
\* weekly ones for 'Weekly', the monthly one for 'Monthly' and the daily one
\* for every other label.
C21_LabelSelectsFormat ==
    PeriodPrinted =>
        /\ (PeriodLabel = "Weekly" /\ WeekRange(PeriodStart, PeriodEnd)
              /\ ~SameCalendarMonth(PeriodStart, PeriodEnd)) => InFormat("bothMonths")
        /\ (PeriodLabel = "Weekly" /\ WeekRange(PeriodStart, PeriodEnd)
              /\ SameCalendarMonth(PeriodStart, PeriodEnd)) => InFormat("oneMonth")
        /\ (PeriodLabel = "Monthly") => InFormat("monthAndYear")
        /\ (PeriodLabel = "Daily") => InFormat("bothDates")
        /\ Cardinality({ f \in PeriodFormats : InFormat(f) }) = 1
        /\ PeriodLabel = "Weekly" => InFormat("bothMonths") \/ InFormat("oneMonth")
        /\ PeriodLabel \notin {"Weekly", "Monthly"} => InFormat("bothDates")

\* a week that runs from December into January has been printed
C21_Witness ==
    /\ PeriodPrinted
    /\ PeriodLabel = "Weekly"
    /\ WeekRange(PeriodStart, PeriodEnd)
    /\ PeriodStart.y # PeriodEnd.y
    /\ periodOut = <<"Period: ", "Dec", " ", "3", "0", " - ", "Jan", " ", "5", ", ", "2", "0", "2", "5">>

\* ---- C22
\* C22: every sale of a successful getSalesReport response carries a status
\* that generateSalesReportPDF's allowedStatuses accepts, so the report lays
\* out one row for each of the sale's items and counts the sale in its summary.
C22_ResponseStatusesAccepted ==
    Answered =>
        /\ \A i \in 1..Len(res.sales) :
              res.sales[i].status \in {"Completed", "Partially Returned", "Pending", NULL}
        /\ Len(flattenedData(res.sales))
              = SumOver([i \in 1..Len(res.sales) |-> Len(res.sales[i].items)], Len(res.sales))
        /\ Len(relevantOrders(res.sales)) = Len(res.sales)

\* ---- C23
TotalsKinds == {"subtotal", "tendered", "change", "total", "thanks"}

\* C23: in the receipt, in tenths of a point, every line of the totals section
\* (Subtotal, Cash Tendered, Change, TOTAL) and the closing 'Thank you for
\* your purchase!' line is drawn on the current page at a y within the A4 page
\* height of 841.89pt.
C23_TotalsInsidePage ==
    gen = "receipt" =>
        \A i \in 1..Len(cmds) :
            cmds[i].kind \in TotalsKinds => cmds[i].page = curPage /\ cmds[i].y <= 8418

\* ---- C24
Mounted == mpc # "unmounted"

\* the getDailySales call made for the period now selected
LatestCall == salesReqs[Len(salesReqs)]

\* C24: once every getDailySales call has settled, the chart holds the
\* response for the selected period (when that call answered with rows), and
\* loadingSales is true for as long as the call for the selected period is in
\* flight.
C24_ChartFollowsSelectedPeriod ==
    Mounted =>
        /\ (InFlight = {} /\ LatestCall.state = "rows") =>
              /\ salesChartData.labels
                    = [i \in 1..Len(DailySales(salesPeriod)) |->
                          IF salesPeriod = "year"
                            THEN <<ShortMonths[DailySales(salesPeriod)[i].date.m]>>
                            ELSE <<ShortMonths[DailySales(salesPeriod)[i].date.m], " ">>
                                 \o Decimal(DailySales(salesPeriod)[i].date.d)]
              /\ salesChartData.datasets[1].data
                    = [i \in 1..Len(DailySales(salesPeriod)) |-> DailySales(salesPeriod)[i].total]
        /\ LatestCall.state = "pending" => loadingSales

\* ---- C25
\* C25: after mount the loading flag becomes false in the end, whether the
\* four requests all succeed, some answer success: false or some reject; the
\* loadingSales flag becomes false in the end after every change of the
\* period; and a rejected request leaves the data held before it unchanged.
C25_LoadersEndAndRejectionKeepsData ==
    /\ (Mounted /\ loading) ~> ~loading
    /\ [](loadingSales => <>(~loadingSales))
    /\ [][(mpc = "await" /\ mpc' = "done" /\ \E n \in SectionNames : mount[n].state = "rejected")
             => sections' = sections]_vars
    /\ [][(\E i \in 1..Len(salesReqs) :
              /\ salesReqs[i].state = "pending"
              /\ Len(salesReqs') = Len(salesReqs)
              /\ salesReqs'[i].state = "rejected")
             => salesChartData' = salesChartData]_vars

\* a section request was rejected after another one had succeeded with rows:
\* the loader is down and no section has changed
C25_Witness ==
    /\ mpc = "done"
    /\ ~loading
    /\ \E n \in SectionNames : mount[n].state = "rejected"
    /\ \E n \in SectionNames : mount[n].state = "fulfilled" /\ mount[n].success /\ mount[n].data.k = "list"
    /\ \A n \in SectionNames : sections[n] = <<>>
    /\ ~loadingSales
    /\ salesPeriod = "month"
    /\ LatestCall.state = "rejected"
    /\ salesChartData.labels # <<>>

\* ---- C26
\* the response entry of a sale whose items could not be fetched
WithoutItems(e) == e.items = <<>> /\ e.itemCount = 0 /\ e.calculatedTotal = 0

\* the response entry of a sale whose items were fetched
WithItems(e) ==
    LET its == ItemsInDb(e.id)
    IN /\ e.itemCount = Len(its)
       /\ e.calculatedTotal
             = SumOver([j \in 1..Len(its) |->
                          IF its[j].subtotal.k = "num" THEN its[j].subtotal.v ELSE 0], Len(its))
       /\ Len(e.items) = Cardinality({ j \in 1..Len(its) : NetQuantity(its[j]) > 0 })

\* C26: a failure of Sales.getSaleItems for one sale leaves the request
\* running and adds that sale, in its place, with items = [], itemCount = 0
\* and calculatedTotal = 0, the entries before it unchanged; a success
\* response holds one entry per queried sale, in query order, each either
\* complete or of that empty form; a 500 response is sent only from the sales
\* query or the count query, and carries success: false and no data.
C26_ItemFailureKeepsRequest ==
    /\ [][FetchItemsFailed =>
            LET n == Len(salesWithItems)
            IN /\ Len(salesWithItems') = n + 1
               /\ SubSeq(salesWithItems', 1, n) = salesWithItems
               /\ salesWithItems'[n + 1].id = sales[n + 1].id
               /\ salesWithItems'[n + 1].totalAmount = sales[n + 1].total
               /\ WithoutItems(salesWithItems'[n + 1])
               /\ hpc' = "loop"
               /\ res' = [status |-> 0]]_vars
    /\ [](Answered =>
            /\ res.success
            /\ Len(res.sales) = Len(sales)
            /\ \A i \in 1..Len(res.sales) :
                  /\ res.sales[i].id = sales[i].id
                  /\ WithItems(res.sales[i]) \/ WithoutItems(res.sales[i]))
    /\ []((hpc = "sent" /\ res.status # 200) =>
            /\ res = [status |-> 500, success |-> FALSE, message |-> "Failed to fetch sales report"]
            /\ salesWithItems = <<>>)

\* the first of several sales lost its one sold item to a failed fetch, the second kept its own
C26_Witness ==
    /\ Answered
    /\ Len(res.sales) >= 2
    /\ WithoutItems(res.sales[1])
    /\ Len(ItemsInDb(res.sales[1].id)) = 1
    /\ NetQuantity(ItemsInDb(res.sales[1].id)[1]) > 0
    /\ res.sales[2].itemCount = 1
    /\ Len(res.sales[2].items) = 1

\* ---- C27
\* C27: in a successful response total_pages is the least number of pages of
\* per_page rows that hold total rows, and pagination.from and pagination.to
\* delimit the rows returned: to - from + 1 is their number.
C27_PaginationDelimitsRows ==
    Answered =>
        LET pg == res.pagination
        IN /\ pg.total_pages * pg.per_page >= pg.total
           /\ (pg.total_pages - 1) * pg.per_page < pg.total \/ pg.total_pages = 0
           /\ pg.to - pg.from + 1 = Len(res.sales)

\* ---- C28
\* the sales the count query counts: those the WHERE clause keeps
CountedSales ==
    SelectSeq(db, LAMBDA sale : /\ sale.status \in {"Completed", "Partially Returned", NULL}
                                /\ sale.payment_status # "Refunded")

\* C28: in a successful response summary.totalSales is the number of the
\* matching sales, summary.totalRevenue is the sum of the totals of those same
\* sales, and summary.averageSale is totalRevenue / totalSales, whatever page
\* and limit were asked for.
C28_SummaryOfOneSetOfSales ==
    Answered =>
        LET sm == res.summary
            counted == CountedSales
        IN /\ sm.totalSales = Len(counted)
           /\ sm.totalRevenue = SumOver([i \in 1..Len(counted) |-> counted[i].total.v], Len(counted))
           /\ sm.totalSales > 0 =>
                 sm.averageSale[1] * sm.totalSales = sm.totalRevenue * sm.averageSale[2]

\* ---- C29
\* C29: whatever is inserted into or refunded in the sales table while a
\* request is handled, the successful response has no more rows than
\* pagination.total says there are, and pagination.to is at most total.
C29_RowsWithinTotal ==
    Answered =>
        /\ Len(res.sales) <= res.pagination.total
        /\ res.pagination.to <= res.pagination.total

\* ---- C30
\* the limit the rendered field is configured with
LimitOfField ==
    CASE fieldIn.field = "sales.productName" -> 30
      [] fieldIn.field = "inventory.productName" -> 35
      [] fieldIn.field = "returns.customer_name" -> 20
      [] fieldIn.field = "returns.return_reason" -> 15

\* C30 (as claimed): the text rendered for a string s under a limit L is no
\* longer than s, and has at most L + 3 characters.
C30_NeverLonger ==
    (RenderedString /\ fieldIn.field \in LimitedFields) =>
        /\ Len(fieldOut.s) <= Len(fieldIn.value.s)
        /\ Len(fieldOut.s) <= LimitOfField + 3

\* C30 (amended): the rendered text has at most L + 3 characters; it is longer
\* than s exactly when s has L + 1 or L + 2 characters (it then has L + 3) or
\* when s is an empty customer name or return reason (it is then 'N/A').
C30_LongerOnlyJustOverLimit ==
    (RenderedString /\ fieldIn.field \in LimitedFields) =>
        LET n == Len(fieldIn.value.s)
            m == Len(fieldOut.s)
            justOver == n \in {LimitOfField + 1, LimitOfField + 2}
            emptyReturnsText ==
                n = 0 /\ fieldIn.field \in {"returns.customer_name", "returns.return_reason"}
        IN /\ m <= LimitOfField + 3
           /\ m > n <=> (justOver \/ emptyReturnsText)
           /\ justOver => m = LimitOfField + 3
           /\ emptyReturnsText => m = 3

\* a customer name one character over the limit of 20 was rendered with 23
C30_Witness ==
    /\ RenderedString
    /\ fieldIn.field = "returns.customer_name"
    /\ Len(fieldIn.value.s) = 21
    /\ Len(fieldOut.s) = 23

====
